---- MODULE Spec2Model ----
(***************************************************************************)
(* The express-prisma API as a state machine over the credential store     *)
(* (users) and Redis (cache): AuthService, the authenticate middleware,    *)
(* UserService, CacheService, the rate limiter, errorHandler, the Redis    *)
(* connection and process start-up. Every handler advances one awaited     *)
(* store command at a time, so that other requests, the clock and store    *)
(* failures fall between its commands.                                     *)
(***************************************************************************)
EXTENDS Integers, FiniteSets, Sequences, TLC

\* ---------------------------------------------------------------- bounds
MaxIssue == 2       \* token pairs issued in one behaviour
MaxUsers == 2       \* user ids the credential store hands out
MaxTime == 2        \* clock ticks
MaxCalls == 2       \* requests in flight at once
MaxReqs == 3        \* requests that reach the rate limiter

\* token lifetimes; the clock counts in units of half an access-token
\* lifetime (JWT_EXPIRES_IN, 900 s) and the refresh lifetime
\* (JWT_REFRESH_EXPIRES_IN, 604800 s) is shortened to three units
AccessTTL == 2
RefreshTTL == 3

Emails == {"a@x.io", "b@x.io"}
Passwords == {"pw1", "pw2"}

\* ------------------------------------------------------------- constants
AccessSecret == "your_jwt_secret"
RefreshSecret == "refresh_secret"
NoJti == 0
NoHash == [alg |-> "none", of |-> ""]

VARIABLES
  env,        \* config.env
  users,      \* credential store: id -> row
  nextId,     \* next id of the credential store
  cache,      \* Redis: key -> [data, exp]
  down,       \* stores that are currently failing ("db", "cache")
  now,        \* clock
  issued,     \* every token handed to a client so far
  nextJti,    \* randomUUID(): next unused jti
  resp,       \* response of the latest operation
  loggedOut,  \* history: tokens for which logout completed successfully
  calls       \* requests in flight: call id -> position and locals

vars == <<env, users, nextId, cache, down, now, issued, nextJti, resp, loggedOut, calls>>

\* ---------------------------------------------------------------- tokens
NoToken == [sig |-> "none", id |-> 0, email |-> "", role |-> "", jti |-> NoJti, iat |-> 0, exp |-> 0]
Garbage == [sig |-> "garbage", id |-> 0, email |-> "", role |-> "", jti |-> NoJti, iat |-> 0, exp |-> 0]

\* jwt.sign(payload, secret, {expiresIn, jwtid})
Sign(payload, secret, ttl, jti) ==
  [sig |-> secret, id |-> payload.id, email |-> payload.email, role |-> payload.role,
   jti |-> jti, iat |-> now, exp |-> now + ttl]

\* jwt.verify(token, secret): signature first, then expiry
Verify(tok, secret) ==
  IF tok.sig # secret THEN "JsonWebTokenError"
  ELSE IF now >= tok.exp THEN "TokenExpiredError"
  ELSE "ok"

generateToken(payload, jti) == Sign(payload, AccessSecret, AccessTTL, jti)

\* a refresh token signed with the access secret
generateRefreshTokenSameSecret(payload, jti) == Sign(payload, AccessSecret, RefreshTTL, jti)

generateRefreshToken(payload, jti) == Sign(payload, RefreshSecret, RefreshTTL, jti)

\* -------------------------------------------------------------- bcrypt
Hash(pw) == [alg |-> "bcrypt", of |-> pw]

\* bcrypt.compare(data, hash): rejects when the hash is missing
Compare(pw, hash) ==
  IF hash = NoHash THEN "error"
  ELSE IF hash = Hash(pw) THEN "match" ELSE "mismatch"

\* ---------------------------------------------------------- CacheService
Json(v) == <<"json", v>>

Parse(s) == s[2]

TokenKey(jti) == <<"token", jti>>

RefreshKey(uid) == <<"refreshToken", uid>>

UserKey(id) == <<"user", id>>

\* `users:list:${JSON.stringify(query)}`
ListKey(query) == <<"users:list", query>>

LiveAt(c, k) == k \in DOMAIN c /\ (c[k].exp = -1 \/ c[k].exp > now)

\* CacheService.get: null on a miss and on a store error
CacheGet(c, k) ==
  IF "cache" \in down THEN NoToken
  ELSE IF LiveAt(c, k) THEN Parse(c[k].data) ELSE NoToken

\* CacheService.set: setEx with a TTL, errors swallowed
CacheSet(c, k, v, ttl) ==
  IF "cache" \in down THEN c
  ELSE [x \in DOMAIN c \cup {k} |->
          IF x = k THEN [data |-> Json(v), exp |-> IF ttl # 0 THEN now + ttl ELSE -1]
          ELSE c[x]]

\* CacheService.del, errors swallowed
CacheDel(c, k) ==
  IF "cache" \in down THEN c
  ELSE [x \in DOMAIN c \ {k} |-> c[x]]

\* client.keys('users:list:*')
CacheKeys(c, prefix) ==
  IF "cache" \in down THEN {} ELSE {k \in DOMAIN c : k[1] = prefix /\ LiveAt(c, k)}

\* client.del(keys)
CacheDelKeys(c, keys) ==
  IF "cache" \in down THEN c ELSE [x \in DOMAIN c \ keys |-> c[x]]

\* CacheService.delPattern run without interruption
CacheDelPattern(c, prefix) == CacheDelKeys(c, CacheKeys(c, prefix))

\* an exists that answers true when the store cannot be asked
CacheExistsFailOpen(c, k) ==
  IF "cache" \in down THEN TRUE ELSE LiveAt(c, k)

\* CacheService.exists: false on a store error
CacheExists(c, k) ==
  IF "cache" \in down THEN FALSE ELSE LiveAt(c, k)

\* -------------------------------------------------------- UserRepository
findByEmail(us, email) == {i \in DOMAIN us : us[i].email = email}

findById(us, id) == {i \in DOMAIN us : i = id}

\* UserRepository.create: only email and name reach prisma.user.create
create(us, id, data) ==
  [x \in DOMAIN us \cup {id} |->
     IF x = id
     THEN [id |-> id, email |-> data.email, name |-> data.name, password |-> NoHash,
           role |-> "User"]
     ELSE us[x]]

\* prisma.user.create of the earlier register route: the hash is stored
createWithHash(us, id, data) ==
  [x \in DOMAIN us \cup {id} |->
     IF x = id
     THEN [id |-> id, email |-> data.email, name |-> data.name, password |-> data.password,
           role |-> "User"]
     ELSE us[x]]

\* UserRepository.delete
delete(us, id) == [x \in DOMAIN us \ {id} |-> us[x]]

\* UserRepository.update: the fields present in data are written
update(us, id, data) ==
  [us EXCEPT ![id].email = IF data.email # "" THEN data.email ELSE @,
             ![id].name = IF data.name # "" THEN data.name ELSE @]

\* ---------------------------------------------------------- errorHandler
\* statusCode of the AppError subclasses, 500 for any other error
StatusOf(kind) ==
  CASE kind = "Unauthorized" -> 401
    [] kind = "Conflict" -> 409
    [] kind = "NotFound" -> 404
    [] kind = "BadRequest" -> 400
    [] OTHER -> 500

IsAppError(kind) == kind \in {"Unauthorized", "Conflict", "NotFound", "BadRequest"}

\* body.error written by errorHandler
BodyError(kind, message) ==
  IF IsAppError(kind) THEN message
  ELSE IF env = "development" THEN message ELSE "Internal server error"

NoUser == [id |-> 0, email |-> "", role |-> ""]
\* a request without Authorization header
NoHeader == [scheme |-> "", token |-> NoToken]

\* a failed service call as it leaves errorHandler
Fail(kind, message, us, c) ==
  [status |-> StatusOf(kind), kind |-> kind, message |-> BodyError(kind, message),
   access |-> NoToken, refresh |-> NoToken, next |-> FALSE, user |-> NoUser,
   users |-> us, cache |-> c, jtis |-> 0, ids |-> 0]

Ok(status, access, refresh, us, c, jtis, ids) ==
  [status |-> status, kind |-> "ok", message |-> "",
   access |-> access, refresh |-> refresh, next |-> FALSE, user |-> NoUser,
   users |-> us, cache |-> c, jtis |-> jtis, ids |-> ids]

\* ------------------------------------------------- errorHandler, in full
Envs == {"development", "test", "staging", "production"}

PrismaCodes == {"P2002", "P2025", "P2003", "P2014", "P2000"}

\* errors a handler can pass to next(err)
Errors ==
  {[class |-> "AppError", statusCode |-> StatusOf(k[1]), message |-> k[2],
    code |-> "", target |-> <<>>] :
      k \in {<<"Unauthorized", "Invalid credentials">>,
             <<"Conflict", "User with this email already exists">>,
             <<"NotFound", "User not found">>}}
  \cup {[class |-> "PrismaClientKnownRequestError", statusCode |-> 0,
         message |-> "Invalid prisma.user.create() invocation", code |-> c, target |-> t] :
          c \in PrismaCodes, t \in {<<>>, <<"email">>}}
  \cup {[class |-> "PrismaClientValidationError", statusCode |-> 0,
         message |-> "Argument email is missing.", code |-> "", target |-> <<>>]}
  \cup {[class |-> "Error", statusCode |-> 0, message |-> m, code |-> "", target |-> <<>>] :
          m \in {"connect ECONNREFUSED 127.0.0.1:5432", "data and hash arguments required"}}

\* err.stack
Stack(err) == <<"stack", err.class, err.message>>

\* handlePrismaError without the P2002 case
handlePrismaErrorNoP2002(error) ==
  CASE error.code = "P2025" -> [status |-> 404, message |-> "Record not found"]
    [] OTHER -> [status |-> 500, message |-> "Database error"]

\* handlePrismaError
handlePrismaError(error) ==
  CASE error.code = "P2002" ->
         LET field == IF error.target # <<>> THEN error.target[1] ELSE "field" IN
         [status |-> 409, message |-> "A record with this " \o field \o " already exists"]
    [] error.code = "P2025" -> [status |-> 404, message |-> "Record not found"]
    [] error.code = "P2003" -> [status |-> 400, message |-> "Invalid reference to related record"]
    [] error.code = "P2014" -> [status |-> 400, message |-> "Invalid ID provided"]
    [] OTHER -> [status |-> 500, message |-> "Database error"]

\* ...(cond && {fields}): the fields are spread into the body only if cond
Spread(cond, fields) == IF cond THEN fields ELSE <<>>

\* errorHandler that keeps the detail out of production only
errorHandlerUnlessProduction(err, headersSent) ==
  LET detail == env # "production" IN
  IF headersSent THEN [sent |-> FALSE, status |-> 0, body |-> <<>>]
  ELSE IF err.class = "AppError" THEN
    [sent |-> TRUE, status |-> err.statusCode,
     body |-> [success |-> FALSE, error |-> err.message]
                @@ Spread(detail, [stack |-> Stack(err)])]
  ELSE IF err.class = "PrismaClientKnownRequestError" THEN
    LET prismaError == handlePrismaError(err) IN
    [sent |-> TRUE, status |-> prismaError.status,
     body |-> [success |-> FALSE, error |-> prismaError.message]
                @@ Spread(detail, [code |-> err.code, meta |-> [target |-> err.target]])]
  ELSE IF err.class = "PrismaClientValidationError" THEN
    [sent |-> TRUE, status |-> 400,
     body |-> [success |-> FALSE, error |-> "Invalid data provided"]
                @@ Spread(detail, [details |-> err.message])]
  ELSE
    [sent |-> TRUE, status |-> 500,
     body |-> [success |-> FALSE,
               error |-> IF detail THEN err.message ELSE "Internal server error"]
                @@ Spread(detail, [stack |-> Stack(err)])]

\* errorHandler: the response it writes, or none when headers were already sent
errorHandler(err, headersSent) ==
  LET development == env = "development" IN
  IF headersSent THEN [sent |-> FALSE, status |-> 0, body |-> <<>>]
  ELSE IF err.class = "AppError" THEN
    [sent |-> TRUE, status |-> err.statusCode,
     body |-> [success |-> FALSE, error |-> err.message]
                @@ Spread(development, [stack |-> Stack(err)])]
  ELSE IF err.class = "PrismaClientKnownRequestError" THEN
    LET prismaError == handlePrismaError(err) IN
    [sent |-> TRUE, status |-> prismaError.status,
     body |-> [success |-> FALSE, error |-> prismaError.message]
                @@ Spread(development, [code |-> err.code, meta |-> [target |-> err.target]])]
  ELSE IF err.class = "PrismaClientValidationError" THEN
    [sent |-> TRUE, status |-> 400,
     body |-> [success |-> FALSE, error |-> "Invalid data provided"]
                @@ Spread(development, [details |-> err.message])]
  ELSE
    [sent |-> TRUE, status |-> 500,
     body |-> [success |-> FALSE,
               error |-> IF development THEN err.message ELSE "Internal server error"]
                @@ Spread(development, [stack |-> Stack(err)])]


\* AuthService.generateTokens: the pair, and the cache after storing the refresh token
generateTokens(user, c) ==
  LET payload == [id |-> user.id, email |-> user.email, role |-> user.role]
      token == generateToken(payload, nextJti)
      refreshToken == generateRefreshToken(payload, nextJti + 1)
  IN [token |-> token, refreshToken |-> refreshToken,
      cache |-> CacheSet(c, RefreshKey(user.id), refreshToken, RefreshTTL)]

\* AuthService.login
LoginResult(email, password) ==
  IF "db" \in down THEN Fail("StoreError", "db", users, cache)
  ELSE LET found == findByEmail(users, email) IN
    IF found = {} THEN Fail("Unauthorized", "Invalid credentials", users, cache)
    ELSE LET user == users[CHOOSE i \in found : TRUE]
             cmp == Compare(password, user.password) IN
      IF cmp = "error" THEN Fail("Error", "data and hash arguments required", users, cache)
      ELSE IF cmp = "mismatch" THEN Fail("Unauthorized", "Invalid credentials", users, cache)
      ELSE LET t == generateTokens(user, cache)
               c2 == CacheSet(t.cache, TokenKey(t.token.jti), [userId |-> user.id], AccessTTL)
           IN Ok(200, t.token, t.refreshToken, users, c2, 2, 0)

\* what the caller of an operation gets back
Respond(op, r) ==
  [op |-> op, status |-> r.status, kind |-> r.kind, message |-> r.message, next |-> r.next]

\* register without the findByEmail guard
RegisterResultUnguarded(email, password) ==
  IF "db" \in down THEN Fail("StoreError", "db", users, cache)
  ELSE LET us2 == create(users, nextId,
                         [email |-> email, name |-> "Bob", password |-> Hash(password), role |-> "User"])
           t == generateTokens(us2[nextId], cache)
       IN Ok(201, t.token, t.refreshToken, us2, t.cache, 2, 1)

\* AuthService.register
RegisterResult(email, password) ==
  IF "db" \in down THEN Fail("StoreError", "db", users, cache)
  ELSE IF findByEmail(users, email) # {}
    THEN Fail("Conflict", "User with this email already exists", users, cache)
  ELSE LET hashedPassword == Hash(password)
           us2 == create(users, nextId,
                         [email |-> email, name |-> "Bob", password |-> hashedPassword, role |-> "User"])
           t == generateTokens(us2[nextId], cache)
       IN Ok(201, t.token, t.refreshToken, us2, t.cache, 2, 1)

\* a comparison that lets a missing entry pass
RefreshStoredMismatchNullPass(stored, refreshToken) ==
  stored # NoToken /\ stored # refreshToken

\* storedRefreshToken !== refreshToken (a miss reads as null and never equals a token)
RefreshStoredMismatch(stored, refreshToken) == stored # refreshToken

\* the try block of AuthService.refreshToken
RefreshInner(refreshToken) ==
  LET v == Verify(refreshToken, RefreshSecret) IN
  IF v # "ok" THEN Fail(v, "jwt", users, cache)
  ELSE IF "db" \in down THEN Fail("StoreError", "db", users, cache)
  ELSE IF findById(users, refreshToken.id) = {}
    THEN Fail("Unauthorized", "Invalid credentials", users, cache)
  ELSE LET user == users[refreshToken.id]
           storedRefreshToken == CacheGet(cache, RefreshKey(user.id)) IN
    IF RefreshStoredMismatch(storedRefreshToken, refreshToken)
      THEN Fail("Unauthorized", "Invalid refresh token", users, cache)
    ELSE LET t == generateTokens(user, cache)
         IN Ok(200, t.token, t.refreshToken, users, t.cache, 2, 0)

\* AuthService.refreshToken: the catch block rethrows every error as Unauthorized
RefreshResult(refreshToken) ==
  LET r == RefreshInner(refreshToken) IN
  IF r.kind = "ok" THEN r
  ELSE Fail("Unauthorized", "Invalid refresh token", users, cache)

\* the two cache deletions of AuthService.logout
LogoutCache(c, jti, uid) == CacheDel(CacheDel(c, TokenKey(jti)), RefreshKey(uid))

\* AuthService.logout
LogoutResult(token) ==
  LET v == Verify(token, AccessSecret) IN
  IF v # "ok" THEN Fail(v, "jwt", users, cache)
  ELSE IF "db" \in down THEN Fail("StoreError", "db", users, cache)
  ELSE IF findById(users, token.id) = {}
    THEN Fail("Unauthorized", "Invalid credentials", users, cache)
  ELSE Ok(200, NoToken, NoToken, users, LogoutCache(cache, token.jti, token.id), 0, 0)

\* ---------------------------------------------------------- authenticate
\* what a middleware leaves behind; lookups counts its cacheService calls
Reply(status, message) ==
  [status |-> status, kind |-> "reply", message |-> message,
   access |-> NoToken, refresh |-> NoToken, next |-> FALSE, user |-> NoUser,
   users |-> users, cache |-> cache, jtis |-> 0, ids |-> 0, lookups |-> 0]

\* authenticate that tests instanceof JsonWebTokenError first; TokenExpiredError
\* is a subclass of it
AuthenticateResultInvalidFirst(header) ==
  IF header.scheme # "Bearer" THEN Reply(401, "No token provided")
  ELSE LET token == header.token
           v == Verify(token, AccessSecret) IN
    IF v \in {"JsonWebTokenError", "TokenExpiredError"} THEN Reply(401, "Invalid token")
    ELSE IF token.jti # NoJti /\ ~CacheExists(cache, TokenKey(token.jti))
      THEN [Reply(401, "Token invalidated or expired") EXCEPT !.lookups = 1]
    ELSE [Reply(200, "") EXCEPT
            !.next = TRUE,
            !.user = [id |-> token.id, email |-> token.email, role |-> token.role],
            !.lookups = IF token.jti # NoJti THEN 1 ELSE 0]

\* authenticate without the session-cache lookup
AuthenticateResultNoLookup(header) ==
  IF header.scheme # "Bearer" THEN Reply(401, "No token provided")
  ELSE LET token == header.token
           v == Verify(token, AccessSecret) IN
    IF v = "TokenExpiredError" THEN Reply(401, "Token expired")
    ELSE IF v = "JsonWebTokenError" THEN Reply(401, "Invalid token")
    ELSE [Reply(200, "") EXCEPT
            !.next = TRUE,
            !.user = [id |-> token.id, email |-> token.email, role |-> token.role]]

\* authenticate middleware; header.scheme = "" stands for a request without the header
AuthenticateResult(header) ==
  IF header.scheme # "Bearer" THEN Reply(401, "No token provided")
  ELSE LET token == header.token
           v == Verify(token, AccessSecret) IN
    IF v = "TokenExpiredError" THEN Reply(401, "Token expired")
    ELSE IF v = "JsonWebTokenError" THEN Reply(401, "Invalid token")
    ELSE IF token.jti # NoJti /\ ~CacheExists(cache, TokenKey(token.jti))
      THEN [Reply(401, "Token invalidated or expired") EXCEPT !.lookups = 1]
    ELSE [Reply(200, "") EXCEPT
            !.next = TRUE,
            !.user = [id |-> token.id, email |-> token.email, role |-> token.role],
            !.lookups = IF token.jti # NoJti THEN 1 ELSE 0]

\* ------------------------------------------------------------ UserService
\* the two invalidations of updateUser and deleteUser
InvalidateCache(c, id) == CacheDelPattern(CacheDel(c, UserKey(id)), "users:list")

\* UserService.deleteUser
DeleteUserResult(id) ==
  IF "db" \in down THEN Fail("StoreError", "db", users, cache)
  ELSE IF findById(users, id) = {} THEN Fail("NotFound", "User not found", users, cache)
  ELSE Ok(200, NoToken, NoToken, delete(users, id), InvalidateCache(cache, id), 0, 0)

\* ----------------------------------------------------------------- clock
\* one second passes; Redis drops the keys whose TTL has run out
Expire(c, t) == [x \in {k \in DOMAIN c : c[k].exp = -1 \/ c[k].exp > t} |-> c[x]]

Tick ==
  /\ now < MaxTime
  /\ now' = now + 1
  /\ cache' = Expire(cache, now + 1)
  /\ UNCHANGED <<env, users, nextId, down, issued, nextJti, resp, loggedOut, calls>>

\* ------------------------------------------------------------------ Init
SeedRow ==
  [id |-> 1, email |-> "a@x.io", name |-> "Ann", password |-> Hash("pw1"), role |-> "User"]

\* tokens a client can present
Presentable == issued \cup {Garbage}

Bearer(t) == [scheme |-> "Bearer", token |-> t]

Headers ==
  {NoHeader, [scheme |-> "Basic", token |-> Garbage]} \cup {Bearer(t) : t \in Presentable}

Init ==
  /\ env = "production"
  /\ users = <<SeedRow>>
  /\ nextId = 2
  /\ cache = <<>>
  /\ down = {}
  /\ now = 0
  /\ issued = {}
  /\ nextJti = 1
  /\ resp = Respond("none", Ok(0, NoToken, NoToken, users, cache, 0, 0))
  /\ loggedOut = {}
  /\ calls = <<>>

\* -------------------------------------------------------- store failures
Stores == {"db", "cache"}

\* Prisma or the Redis client starts to reject every command
Break(s) ==
  /\ s \notin down
  /\ down' = down \cup {s}
  /\ UNCHANGED <<env, users, nextId, cache, now, issued, nextJti, resp, loggedOut, calls>>

\* the store answers again; what it held is still there
Repair(s) ==
  /\ s \in down
  /\ down' = down \ {s}
  /\ UNCHANGED <<env, users, nextId, cache, now, issued, nextJti, resp, loggedOut, calls>>

\* ============================================ requests, one await at a time
\* calls[p] is a request in flight: the handler it is in, the await it is
\* at, its argument and its locals. Every step below is one awaited command
\* being answered, followed by the synchronous code up to the next await.
Calls == 1..MaxCalls

NoPair == [token |-> NoToken, refreshToken |-> NoToken]

NoRow == [id |-> 0, email |-> "", name |-> "", password |-> NoHash, role |-> ""]

Call(op, pc, arg) ==
  [op |-> op, pc |-> pc, arg |-> arg, user |-> NoRow, stored |-> NoToken, out |-> NoPair,
   dto |-> NoUser, locals |-> NoUser, keys |-> {}, kind |-> "", status |-> 0, message |-> "",
   readAt |-> 0, writeAt |-> 0]

Put(p, rec) == [x \in DOMAIN calls \cup {p} |-> IF x = p THEN rec ELSE calls[x]]

At(p, op, pc) == p \in DOMAIN calls /\ calls[p].op = op /\ calls[p].pc = pc

\* the handler is entered and its first command is sent
Enter(p, rec) ==
  /\ p \notin DOMAIN calls
  /\ calls' = Put(p, rec)
  /\ UNCHANGED <<env, users, nextId, cache, down, now, issued, nextJti, resp, loggedOut>>

\* the call moves on to its next await and touches nothing else
Goto(p, rec) ==
  /\ calls' = Put(p, rec)
  /\ UNCHANGED <<env, users, nextId, cache, down, now, issued, nextJti, resp, loggedOut>>

\* the handler is left: r reaches the client, through the controller or,
\* for an error, through errorHandler
End(p, rec, r) ==
  /\ calls' = Put(p, [rec EXCEPT !.pc = "done", !.kind = r.kind, !.status = r.status,
                                 !.message = r.message])
  /\ resp' = Respond(rec.op, r)
  /\ UNCHANGED <<env, down, now>>

\* the handler is left and has changed nothing in this step
Exit(p, rec, r) ==
  /\ End(p, rec, r)
  /\ UNCHANGED <<users, nextId, cache, issued, nextJti, loggedOut>>

\* an error of Prisma as errorHandler answers it
Thrown(err) ==
  LET r == errorHandler(err, FALSE) IN
  [Fail(err.code, r.body.error, users, cache) EXCEPT
     !.status = r.status, !.message = r.body.error]

\* the response has been written; Express drops the request
Return(p) ==
  /\ p \in DOMAIN calls
  /\ calls[p].pc = "done"
  /\ calls' = [x \in DOMAIN calls \ {p} |-> calls[x]]
  /\ UNCHANGED <<env, users, nextId, cache, down, now, issued, nextJti, resp, loggedOut>>

\* randomUUID() has jtis left to hand out in this behaviour
CanSign == nextJti + 2 <= 2 * MaxIssue + 1

\* the same for refreshToken, with one more pair for every further call in
\* flight, so that overlapping calls can each be served
CanRotate == nextJti + 2 <= 2 * (MaxIssue + Cardinality(DOMAIN calls) - 1) + 1

\* position in the order of the commands Redis has served to the calls
Stamp ==
  1 + Cardinality({p \in DOMAIN calls : calls[p].readAt > 0})
    + Cardinality({p \in DOMAIN calls : calls[p].writeAt > 0})

\* a write that leaves an existing entry in place (SET NX)
StoreRefreshIfAbsent(c, uid, refreshToken) ==
  IF RefreshKey(uid) \in DOMAIN c THEN c
  ELSE CacheSet(c, RefreshKey(uid), refreshToken, RefreshTTL)

\* the cache.set of generateTokens, as Redis executes it
StoreRefresh(c, uid, refreshToken) ==
  CacheSet(c, RefreshKey(uid), refreshToken, RefreshTTL)

\* ------------------------------------------------------ AuthService.login
\* login is called: the findByEmail query is sent
LoginBegin(p, email, password) ==
  Enter(p, Call("login", "find", [email |-> email, password |-> password]))

\* findByEmail answers: no row is Unauthorized; bcrypt.compare is called,
\* and rejects at once when the row holds no hash
LoginFind(p) ==
  /\ At(p, "login", "find")
  /\ LET rec == calls[p]
         found == findByEmail(users, rec.arg.email)
         user == users[CHOOSE i \in found : TRUE]
     IN IF "db" \in down THEN Exit(p, rec, Fail("StoreError", "db", users, cache))
        ELSE IF found = {}
          THEN Exit(p, rec, Fail("Unauthorized", "Invalid credentials", users, cache))
        ELSE IF Compare(rec.arg.password, user.password) = "error"
          THEN Exit(p, rec, Fail("Error", "data and hash arguments required", users, cache))
        ELSE Goto(p, [rec EXCEPT !.pc = "compare", !.user = user])

\* bcrypt.compare answers: a mismatch is Unauthorized; on a match
\* generateTokens signs the pair and sends the cache.set of the refresh token
LoginCompare(p) ==
  /\ At(p, "login", "compare")
  /\ LET rec == calls[p]
         t == generateTokens(rec.user, cache)
     IN IF Compare(rec.arg.password, rec.user.password) = "mismatch"
          THEN Exit(p, rec, Fail("Unauthorized", "Invalid credentials", users, cache))
        ELSE /\ CanSign
             /\ calls' = Put(p, [rec EXCEPT
                            !.pc = "setRefresh",
                            !.out = [token |-> t.token, refreshToken |-> t.refreshToken]])
             /\ nextJti' = nextJti + 2
             /\ UNCHANGED <<env, users, nextId, cache, down, now, issued, resp, loggedOut>>

\* Redis executes the cache.set of generateTokens; jwt.verify of the new
\* access token; the cache.set of token:<jti> is sent
LoginSetRefresh(p) ==
  /\ At(p, "login", "setRefresh")
  /\ LET rec == calls[p]
         c2 == StoreRefresh(cache, rec.user.id, rec.out.refreshToken)
         v == Verify(rec.out.token, AccessSecret)
     IN /\ cache' = c2
        /\ IF v # "ok" THEN End(p, rec, Fail(v, "jwt", users, c2))
           ELSE calls' = Put(p, [rec EXCEPT !.pc = "setToken"]) /\ UNCHANGED <<env, down, now, resp>>
        /\ UNCHANGED <<users, nextId, issued, nextJti, loggedOut>>

\* Redis executes the cache.set of token:<jti>; the pair is returned
LoginSetToken(p) ==
  /\ At(p, "login", "setToken")
  /\ LET rec == calls[p]
         c2 == CacheSet(cache, TokenKey(rec.out.token.jti), [userId |-> rec.user.id], AccessTTL)
     IN /\ cache' = c2
        /\ issued' = issued \cup {rec.out.token, rec.out.refreshToken}
        /\ End(p, rec, Ok(200, rec.out.token, rec.out.refreshToken, users, c2, 2, 0))
        /\ UNCHANGED <<users, nextId, nextJti, loggedOut>>

\* --------------------------------------------------- AuthService.register
\* the error prisma.user.create and prisma.user.update reject with when the
\* email is taken (email is a unique field: findByEmail reads it with findUnique)
UniqueViolation ==
  [class |-> "PrismaClientKnownRequestError", statusCode |-> 0,
   message |-> "Unique constraint failed on the fields: (email)", code |-> "P2002",
   target |-> <<"email">>]

\* the error prisma.user.update and prisma.user.delete reject with when the
\* row is gone
RecordNotFound ==
  [class |-> "PrismaClientKnownRequestError", statusCode |-> 0,
   message |-> "Record to update or delete does not exist", code |-> "P2025",
   target |-> <<>>]

\* register is called: the findByEmail query is sent
RegisterBegin(p, email, password) ==
  Enter(p, Call("register", "find", [email |-> email, password |-> password]))

\* findByEmail answers: ConflictError, or bcrypt.hash is called
RegisterFind(p) ==
  /\ At(p, "register", "find")
  /\ LET rec == calls[p] IN
       IF "db" \in down THEN Exit(p, rec, Fail("StoreError", "db", users, cache))
       ELSE IF findByEmail(users, rec.arg.email) # {}
         THEN Exit(p, rec, Fail("Conflict", "User with this email already exists", users, cache))
       ELSE Goto(p, [rec EXCEPT !.pc = "hash"])

\* bcrypt.hash answers: userRepository.create is sent
RegisterHash(p) ==
  /\ At(p, "register", "hash")
  /\ Goto(p, [calls[p] EXCEPT !.pc = "create"])

\* prisma.user.create answers: P2002 when the email is taken by now, or the
\* row; then generateTokens signs the pair and sends its cache.set
RegisterCreate(p) ==
  /\ At(p, "register", "create")
  /\ LET rec == calls[p]
         us2 == create(users, nextId,
                       [email |-> rec.arg.email, name |-> "Bob",
                        password |-> Hash(rec.arg.password), role |-> "User"])
         t == generateTokens(us2[nextId], cache)
     IN IF "db" \in down THEN Exit(p, rec, Fail("StoreError", "db", users, cache))
        ELSE IF findByEmail(users, rec.arg.email) # {} THEN Exit(p, rec, Thrown(UniqueViolation))
        ELSE /\ nextId <= MaxUsers
             /\ CanSign
             /\ users' = us2
             /\ nextId' = nextId + 1
             /\ nextJti' = nextJti + 2
             /\ calls' = Put(p, [rec EXCEPT
                            !.pc = "setRefresh", !.user = us2[nextId],
                            !.out = [token |-> t.token, refreshToken |-> t.refreshToken]])
             /\ UNCHANGED <<env, cache, down, now, issued, resp, loggedOut>>

\* Redis executes the cache.set of generateTokens; 201 with the pair
RegisterSet(p) ==
  /\ At(p, "register", "setRefresh")
  /\ LET rec == calls[p]
         c2 == StoreRefresh(cache, rec.user.id, rec.out.refreshToken)
     IN /\ cache' = c2
        /\ issued' = issued \cup {rec.out.token, rec.out.refreshToken}
        /\ End(p, rec, Ok(201, rec.out.token, rec.out.refreshToken, users, c2, 2, 1))
        /\ UNCHANGED <<users, nextId, nextJti, loggedOut>>

\* ----------------------------------------------- AuthService.refreshToken
\* the call ends in the catch block, which rethrows every error as Unauthorized
RefreshThrow(p, rec) ==
  Exit(p, rec, Fail("Unauthorized", "Invalid refresh token", users, cache))

\* jwt.verify, then the findById query is sent
RefreshBegin(p, refreshToken) ==
  /\ p \notin DOMAIN calls
  /\ IF Verify(refreshToken, RefreshSecret) # "ok"
     THEN RefreshThrow(p, Call("refresh", "find", refreshToken))
     ELSE Goto(p, Call("refresh", "find", refreshToken))

\* findById answers; the cache.get is sent
RefreshFind(p) ==
  /\ At(p, "refresh", "find")
  /\ LET rec == calls[p]
         found == findById(users, rec.arg.id) IN
       IF "db" \in down \/ found = {} THEN RefreshThrow(p, rec)
       ELSE Goto(p, [rec EXCEPT !.pc = "get", !.user = users[rec.arg.id]])

\* cache.get answers; on a match both tokens are signed and the cache.set is sent
RefreshGet(p) ==
  /\ At(p, "refresh", "get")
  /\ LET user == calls[p].user
         storedRefreshToken == CacheGet(cache, RefreshKey(user.id))
         rec == [calls[p] EXCEPT !.stored = storedRefreshToken, !.readAt = Stamp]
         t == generateTokens(user, cache)
     IN IF RefreshStoredMismatch(storedRefreshToken, rec.arg) THEN RefreshThrow(p, rec)
        ELSE /\ CanRotate
             /\ calls' = Put(p, [rec EXCEPT
                            !.pc = "set",
                            !.out = [token |-> t.token, refreshToken |-> t.refreshToken]])
             /\ nextJti' = nextJti + 2
             /\ UNCHANGED <<env, users, nextId, cache, down, now, issued, resp, loggedOut>>

\* Redis executes the cache.set; the pair is returned
RefreshSet(p) ==
  /\ At(p, "refresh", "set")
  /\ LET rec == calls[p]
         c2 == StoreRefresh(cache, rec.user.id, rec.out.refreshToken)
     IN /\ cache' = c2
        /\ issued' = issued \cup {rec.out.token, rec.out.refreshToken}
        /\ End(p, [rec EXCEPT !.writeAt = Stamp],
               Ok(200, rec.out.token, rec.out.refreshToken, users, c2, 2, 0))
        /\ UNCHANGED <<users, nextId, nextJti, loggedOut>>

\* res.locals.user = { id, email, role } of the decoded token
Decoded(token) == [id |-> token.id, email |-> token.email, role |-> token.role]

\* --------------------------------- POST /auth/logout: authenticate, logout
\* AuthService.logout as authController.logout calls it once authenticate has
\* called next(): jwt.verify, then the findById query is sent
LogoutCall(p, rec) ==
  LET v == Verify(rec.arg, AccessSecret) IN
    IF v # "ok" THEN Exit(p, rec, Fail(v, "jwt", users, cache))
    ELSE Goto(p, [rec EXCEPT !.pc = "find"])

\* authenticate in front of the controller reads the header and verifies the
\* token; a token with a jti sends cacheService.exists, one without goes
\* straight on to the controller
LogoutBegin(p, header) ==
  /\ p \notin DOMAIN calls
  /\ LET rec == Call("logout", "exists", header.token)
         v == Verify(header.token, AccessSecret)
     IN IF header.scheme # "Bearer" THEN Exit(p, rec, Reply(401, "No token provided"))
        ELSE IF v = "TokenExpiredError" THEN Exit(p, rec, Reply(401, "Token expired"))
        ELSE IF v = "JsonWebTokenError" THEN Exit(p, rec, Reply(401, "Invalid token"))
        ELSE IF header.token.jti = NoJti
          THEN LogoutCall(p, [rec EXCEPT !.locals = Decoded(header.token)])
        ELSE Goto(p, rec)

\* cacheService.exists answers: 401, or next() and the controller calls
\* AuthService.logout
LogoutExists(p) ==
  /\ At(p, "logout", "exists")
  /\ LET rec == calls[p] IN
       IF ~CacheExists(cache, TokenKey(rec.arg.jti))
         THEN Exit(p, rec, Reply(401, "Token invalidated or expired"))
       ELSE LogoutCall(p, [rec EXCEPT !.locals = Decoded(rec.arg)])

\* findById answers; the cache.del of token:<jti> is sent
LogoutFind(p) ==
  /\ At(p, "logout", "find")
  /\ LET rec == calls[p] IN
       IF "db" \in down THEN Exit(p, rec, Fail("StoreError", "db", users, cache))
       ELSE IF findById(users, rec.arg.id) = {}
         THEN Exit(p, rec, Fail("Unauthorized", "Invalid credentials", users, cache))
       ELSE Goto(p, [rec EXCEPT !.pc = "delToken", !.user = users[rec.arg.id]])

\* Redis executes the cache.del of token:<jti>; the cache.del of
\* refreshToken:<userId> is sent
LogoutDelToken(p) ==
  /\ At(p, "logout", "delToken")
  /\ cache' = CacheDel(cache, TokenKey(calls[p].arg.jti))
  /\ calls' = Put(p, [calls[p] EXCEPT !.pc = "delRefresh"])
  /\ UNCHANGED <<env, users, nextId, down, now, issued, nextJti, resp, loggedOut>>

\* a logout that ends every session of the user: all token:<jti> entries of
\* the user go with the refresh token
LogoutDelRefreshAllTokens(p) ==
  /\ At(p, "logout", "delRefresh")
  /\ LET rec == calls[p]
         kept == {y \in DOMAIN cache :
                    y[1] = "token" => Parse(cache[y].data) # [userId |-> rec.user.id]}
         c2 == CacheDel([x \in kept |-> cache[x]], RefreshKey(rec.user.id))
     IN /\ cache' = c2
        /\ loggedOut' = loggedOut \cup {rec.arg}
        /\ End(p, rec, Ok(200, NoToken, NoToken, users, c2, 0, 0))
        /\ UNCHANGED <<users, nextId, issued, nextJti>>

\* Redis executes the cache.del of refreshToken:<userId>; logout returns
LogoutDelRefresh(p) ==
  /\ At(p, "logout", "delRefresh")
  /\ LET rec == calls[p]
         c2 == CacheDel(cache, RefreshKey(rec.user.id))
     IN /\ cache' = c2
        /\ loggedOut' = loggedOut \cup {rec.arg}
        /\ End(p, rec, Ok(200, NoToken, NoToken, users, c2, 0, 0))
        /\ UNCHANGED <<users, nextId, issued, nextJti>>

\* ------------------------------------------------ authenticate, optionalAuth
\* the header is read and the token verified; a token with a jti sends
\* cacheService.exists
AuthenticateBegin(p, header) ==
  /\ p \notin DOMAIN calls
  /\ LET rec == Call("authenticate", "exists", header)
         token == header.token
         v == Verify(token, AccessSecret)
     IN IF header.scheme # "Bearer" THEN Exit(p, rec, Reply(401, "No token provided"))
        ELSE IF v = "TokenExpiredError" THEN Exit(p, rec, Reply(401, "Token expired"))
        ELSE IF v = "JsonWebTokenError" THEN Exit(p, rec, Reply(401, "Invalid token"))
        ELSE IF token.jti = NoJti
          THEN Exit(p, [rec EXCEPT !.locals = Decoded(token)],
                    [Reply(200, "") EXCEPT !.next = TRUE, !.user = Decoded(token)])
        ELSE Goto(p, rec)

\* cacheService.exists answers: 401, or res.locals.user is set and next() called
AuthenticateExists(p) ==
  /\ At(p, "authenticate", "exists")
  /\ LET rec == calls[p]
         token == rec.arg.token
     IN IF ~CacheExists(cache, TokenKey(token.jti))
        THEN Exit(p, rec, Reply(401, "Token invalidated or expired"))
        ELSE Exit(p, [rec EXCEPT !.locals = Decoded(token)],
                  [Reply(200, "") EXCEPT !.next = TRUE, !.user = Decoded(token)])

\* optionalAuth: the user of any token that verifies, and next() in every case
OptionalAuthResult(header) ==
  IF header.scheme # "Bearer" THEN [Reply(200, "") EXCEPT !.next = TRUE]
  ELSE IF Verify(header.token, AccessSecret) # "ok" THEN [Reply(200, "") EXCEPT !.next = TRUE]
  ELSE [Reply(200, "") EXCEPT !.next = TRUE, !.user = Decoded(header.token)]

\* optionalAuth has no await: it runs to its next() in one step
OptionalAuth(p, header) ==
  /\ p \notin DOMAIN calls
  /\ LET r == OptionalAuthResult(header) IN
       Exit(p, [Call("optionalAuth", "verify", header) EXCEPT !.locals = r.user], r)

\* ----------------------------- the earlier routes of routes/users.routes.ts
\* generateToken of the earlier auth.middleware: no jwtid
generateTokenNoJti(payload) == Sign(payload, AccessSecret, AccessTTL, NoJti)

\* tokens without a jti handed out in one behaviour
MaxLegacy == 1

CanSignLegacy == Cardinality({t \in issued : t.jti = NoJti}) < MaxLegacy

\* POST /auth/login is called: prisma.user.findUnique is sent
LegacyLoginBegin(p, email, password) ==
  Enter(p, Call("legacyLogin", "find", [email |-> email, password |-> password]))

\* findUnique answers: no row is 401; bcrypt.compare is called, and rejects at
\* once when the row holds no hash; the route answers its own errors with 500
LegacyLoginFind(p) ==
  /\ At(p, "legacyLogin", "find")
  /\ LET rec == calls[p]
         found == findByEmail(users, rec.arg.email)
         user == users[CHOOSE i \in found : TRUE]
     IN IF "db" \in down THEN Exit(p, rec, Reply(500, "Internal server error"))
        ELSE IF found = {} THEN Exit(p, rec, Reply(401, "Invalid credentials"))
        ELSE IF Compare(rec.arg.password, user.password) = "error"
          THEN Exit(p, rec, Reply(500, "Internal server error"))
        ELSE Goto(p, [rec EXCEPT !.pc = "compare", !.user = user])

\* bcrypt.compare answers: a mismatch is 401; on a match the token is signed
\* and nothing is written to the cache
LegacyLoginCompare(p) ==
  /\ At(p, "legacyLogin", "compare")
  /\ LET rec == calls[p]
         user == rec.user
         token == generateTokenNoJti([id |-> user.id, email |-> user.email, role |-> "user"])
     IN IF Compare(rec.arg.password, user.password) = "mismatch"
          THEN Exit(p, rec, Reply(401, "Invalid credentials"))
        ELSE /\ token \in issued \/ CanSignLegacy
             /\ issued' = issued \cup {token}
             /\ End(p, [rec EXCEPT !.out.token = token], Reply(200, "Login successful"))
             /\ UNCHANGED <<users, nextId, cache, nextJti, loggedOut>>

\* POST /auth/register is called: prisma.user.findUnique is sent
LegacyRegisterBegin(p, email, password) ==
  Enter(p, Call("legacyRegister", "find", [email |-> email, password |-> password]))

\* findUnique answers: 409, or bcrypt.hash is called
LegacyRegisterFind(p) ==
  /\ At(p, "legacyRegister", "find")
  /\ LET rec == calls[p] IN
       IF "db" \in down THEN Exit(p, rec, Reply(500, "Internal server error"))
       ELSE IF findByEmail(users, rec.arg.email) # {}
         THEN Exit(p, rec, Reply(409, "User already exists"))
       ELSE Goto(p, [rec EXCEPT !.pc = "hash"])

\* bcrypt.hash answers: prisma.user.create is sent
LegacyRegisterHash(p) ==
  /\ At(p, "legacyRegister", "hash")
  /\ Goto(p, [calls[p] EXCEPT !.pc = "create"])

\* prisma.user.create answers: the row with its hash, and the token; a
\* rejection (the email taken by now) is answered 500 by the route
LegacyRegisterCreate(p) ==
  /\ At(p, "legacyRegister", "create")
  /\ LET rec == calls[p]
         us2 == createWithHash(users, nextId,
                               [email |-> rec.arg.email, name |-> "Bob",
                                password |-> Hash(rec.arg.password)])
         token == generateTokenNoJti([id |-> nextId, email |-> rec.arg.email, role |-> "user"])
     IN IF "db" \in down \/ findByEmail(users, rec.arg.email) # {}
        THEN Exit(p, rec, Reply(500, "Internal server error"))
        ELSE /\ nextId <= MaxUsers
             /\ token \in issued \/ CanSignLegacy
             /\ users' = us2
             /\ nextId' = nextId + 1
             /\ issued' = issued \cup {token}
             /\ End(p, [rec EXCEPT !.user = us2[nextId], !.out.token = token],
                    Reply(201, "User created successfully"))
             /\ UNCHANGED <<cache, nextJti, loggedOut>>

\* ------------------------------------------------------------ UserService
\* cache.set(cacheKey, responseDto, 600) and cache.set(cacheKey, result, 300),
\* in clock units
UserTTL == 2
ListTTL == 1

\* the one query of getAllUsers that is followed: JSON.stringify({})
Query == "{}"

\* toResponseDto: the row without its sensitive fields
toResponseDto(user) == [id |-> user.id, email |-> user.email, name |-> user.name]

\* the service call has succeeded
Served == Ok(200, NoToken, NoToken, users, cache, 0, 0)

\* getUserById(id) is called: the cache.get is sent
GetUserBegin(p, id) == Enter(p, Call("getUserById", "cache", [id |-> id]))

\* getUserById: cache.get answers; a hit is returned
GetUserCache(p) ==
  /\ At(p, "getUserById", "cache")
  /\ LET rec == calls[p]
         cached == CacheGet(cache, UserKey(rec.arg.id)) IN
       IF cached # NoToken THEN Exit(p, [rec EXCEPT !.dto = cached], Served)
       ELSE Goto(p, [rec EXCEPT !.pc = "find"])

\* getUserById: findById answers; an error, or the dto is built and the
\* cache.set is sent
GetUserFind(p) ==
  /\ At(p, "getUserById", "find")
  /\ LET rec == calls[p] IN
       IF "db" \in down THEN Exit(p, rec, Fail("StoreError", "db", users, cache))
       ELSE IF findById(users, rec.arg.id) = {}
         THEN Exit(p, rec, Fail("NotFound", "User not found", users, cache))
       ELSE Goto(p, [rec EXCEPT !.pc = "set", !.dto = toResponseDto(users[rec.arg.id])])

\* getUserById: Redis executes the cache.set; the dto is returned
GetUserSet(p) ==
  /\ At(p, "getUserById", "set")
  /\ cache' = CacheSet(cache, UserKey(calls[p].arg.id), calls[p].dto, UserTTL)
  /\ End(p, calls[p], Served)
  /\ UNCHANGED <<users, nextId, issued, nextJti, loggedOut>>

\* getAllUsers(query) is called: the cache.get is sent
GetAllBegin(p) == Enter(p, Call("getAllUsers", "cache", [query |-> Query]))

\* getAllUsers: cache.get answers; a hit is returned; else Promise.all sends
\* findAll and count together (pc "findAll": both are awaited)
GetAllCache(p) ==
  /\ At(p, "getAllUsers", "cache")
  /\ LET rec == calls[p]
         cached == CacheGet(cache, ListKey(rec.arg.query)) IN
       IF cached # NoToken THEN Exit(p, [rec EXCEPT !.dto = cached], Served)
       ELSE Goto(p, [rec EXCEPT !.pc = "findAll", !.dto = [users |-> {}, total |-> 0]])

\* getAllUsers: prisma.user.findMany answers, before or after count (pc
\* "rows": count has answered); a rejection rejects Promise.all at once;
\* otherwise the rows are those of this moment, and with both answers the
\* result is built and the cache.set is sent
GetAllFind(p) ==
  /\ p \in DOMAIN calls
  /\ calls[p].op = "getAllUsers"
  /\ calls[p].pc \in {"findAll", "rows"}
  /\ LET rec == calls[p] IN
       IF "db" \in down THEN Exit(p, rec, Fail("StoreError", "db", users, cache))
       ELSE Goto(p, [rec EXCEPT
                       !.pc = IF rec.pc = "findAll" THEN "count" ELSE "set",
                       !.dto.users = {toResponseDto(users[i]) : i \in DOMAIN users}])

\* getAllUsers: prisma.user.count answers, before or after findMany (pc
\* "count": findMany has answered); a rejection rejects Promise.all at once;
\* otherwise the total is that of this moment, and with both answers the
\* result is built and the cache.set is sent
GetAllCount(p) ==
  /\ p \in DOMAIN calls
  /\ calls[p].op = "getAllUsers"
  /\ calls[p].pc \in {"findAll", "count"}
  /\ LET rec == calls[p] IN
       IF "db" \in down THEN Exit(p, rec, Fail("StoreError", "db", users, cache))
       ELSE Goto(p, [rec EXCEPT
                       !.pc = IF rec.pc = "findAll" THEN "rows" ELSE "set",
                       !.dto.total = Cardinality(DOMAIN users)])

\* getAllUsers: Redis executes the cache.set; the result is returned
GetAllSet(p) ==
  /\ At(p, "getAllUsers", "set")
  /\ cache' = CacheSet(cache, ListKey(calls[p].arg.query), calls[p].dto, ListTTL)
  /\ End(p, calls[p], Served)
  /\ UNCHANGED <<users, nextId, issued, nextJti, loggedOut>>

\* createUser(data) is called: the findByEmail query is sent
CreateUserBegin(p, email, name) ==
  Enter(p, Call("createUser", "find", [email |-> email, name |-> name]))

\* createUser: findByEmail answers; ConflictError, or create is sent
CreateUserFind(p) ==
  /\ At(p, "createUser", "find")
  /\ LET rec == calls[p] IN
       IF "db" \in down THEN Exit(p, rec, Fail("StoreError", "db", users, cache))
       ELSE IF findByEmail(users, rec.arg.email) # {}
         THEN Exit(p, rec, Fail("Conflict", "User with this email already exists", users, cache))
       ELSE Goto(p, [rec EXCEPT !.pc = "create"])

\* createUser: prisma.user.create answers: P2002 or the row; then
\* delPattern sends client.keys
CreateUserWrite(p) ==
  /\ At(p, "createUser", "create")
  /\ LET rec == calls[p]
         us2 == create(users, nextId, rec.arg)
     IN IF "db" \in down THEN Exit(p, rec, Fail("StoreError", "db", users, cache))
        ELSE IF findByEmail(users, rec.arg.email) # {} THEN Exit(p, rec, Thrown(UniqueViolation))
        ELSE /\ nextId <= MaxUsers
             /\ users' = us2
             /\ nextId' = nextId + 1
             /\ calls' = Put(p, [rec EXCEPT !.pc = "keys", !.dto = toResponseDto(us2[nextId])])
             /\ UNCHANGED <<env, cache, down, now, issued, nextJti, resp, loggedOut>>

\* updateUser(id, data) is called: the findById query is sent
UpdateUserBegin(p, id, email, name) ==
  Enter(p, Call("updateUser", "find", [id |-> id, email |-> email, name |-> name]))

\* updateUser: findById answers; NotFoundError; a new email sends
\* findByEmail; no field at all is a BadRequestError; else update is sent
UpdateUserFind(p) ==
  /\ At(p, "updateUser", "find")
  /\ LET rec == calls[p]
         data == rec.arg IN
       IF "db" \in down THEN Exit(p, rec, Fail("StoreError", "db", users, cache))
       ELSE IF findById(users, data.id) = {}
         THEN Exit(p, rec, Fail("NotFound", "User not found", users, cache))
       ELSE IF data.email # "" /\ data.email # users[data.id].email
         THEN Goto(p, [rec EXCEPT !.pc = "email"])
       ELSE IF data.email = "" /\ data.name = ""
         THEN Exit(p, rec, Fail("BadRequest", "No fields to update", users, cache))
       ELSE Goto(p, [rec EXCEPT !.pc = "update"])

\* updateUser: findByEmail answers; ConflictError, or update is sent
UpdateUserEmail(p) ==
  /\ At(p, "updateUser", "email")
  /\ LET rec == calls[p] IN
       IF "db" \in down THEN Exit(p, rec, Fail("StoreError", "db", users, cache))
       ELSE IF findByEmail(users, rec.arg.email) # {}
         THEN Exit(p, rec, Fail("Conflict", "Email already in use", users, cache))
       ELSE Goto(p, [rec EXCEPT !.pc = "update"])

\* updateUser: prisma.user.update answers: P2025 when the row is gone, P2002
\* when the email is taken by now, or the row; then the invalidations are sent
UpdateUserWrite(p) ==
  /\ At(p, "updateUser", "update")
  /\ LET rec == calls[p]
         data == rec.arg
         us2 == update(users, data.id, data)
     IN IF "db" \in down THEN Exit(p, rec, Fail("StoreError", "db", users, cache))
        ELSE IF findById(users, data.id) = {} THEN Exit(p, rec, Thrown(RecordNotFound))
        ELSE IF data.email # "" /\ findByEmail(users, data.email) \ {data.id} # {}
          THEN Exit(p, rec, Thrown(UniqueViolation))
        ELSE /\ users' = us2
             /\ calls' = Put(p, [rec EXCEPT !.pc = "invalidate",
                                           !.dto = toResponseDto(us2[data.id])])
             /\ UNCHANGED <<env, nextId, cache, down, now, issued, nextJti, resp, loggedOut>>

\* deleteUser(id) is called: the count query of exists is sent
DeleteUserBegin(p, id) == Enter(p, Call("deleteUser", "exists", [id |-> id]))

\* deleteUser: exists answers; NotFoundError, or delete is sent
DeleteUserExists(p) ==
  /\ At(p, "deleteUser", "exists")
  /\ LET rec == calls[p] IN
       IF "db" \in down THEN Exit(p, rec, Fail("StoreError", "db", users, cache))
       ELSE IF findById(users, rec.arg.id) = {}
         THEN Exit(p, rec, Fail("NotFound", "User not found", users, cache))
       ELSE Goto(p, [rec EXCEPT !.pc = "delete"])

\* deleteUser: prisma.user.delete answers: P2025 when the row is gone by
\* now; then the invalidations are sent
DeleteUserWrite(p) ==
  /\ At(p, "deleteUser", "delete")
  /\ LET rec == calls[p] IN
       IF "db" \in down THEN Exit(p, rec, Fail("StoreError", "db", users, cache))
       ELSE IF findById(users, rec.arg.id) = {} THEN Exit(p, rec, Thrown(RecordNotFound))
       ELSE /\ users' = delete(users, rec.arg.id)
            /\ calls' = Put(p, [rec EXCEPT !.pc = "invalidate"])
            /\ UNCHANGED <<env, nextId, cache, down, now, issued, nextJti, resp, loggedOut>>

\* updateUser, deleteUser: Redis answers cache.del(user:<id>), the first of
\* the two commands Promise.all has sent on the one connection; a rejection
\* is swallowed by CacheService.del; the client.keys of delPattern is still
\* to be answered
InvalidateUser(p) ==
  /\ p \in DOMAIN calls
  /\ calls[p].pc = "invalidate"
  /\ cache' = CacheDel(cache, UserKey(calls[p].arg.id))
  /\ calls' = Put(p, [calls[p] EXCEPT !.pc = "keys"])
  /\ UNCHANGED <<env, users, nextId, down, now, issued, nextJti, resp, loggedOut>>

\* createUser, updateUser, deleteUser: Redis answers the client.keys of
\* delPattern: without keys, or on a rejection, the call returns; otherwise
\* client.del(keys) is sent
InvalidatePattern(p) ==
  /\ p \in DOMAIN calls
  /\ calls[p].pc = "keys"
  /\ LET keys == CacheKeys(cache, "users:list") IN
       IF keys = {} THEN Exit(p, calls[p], Served)
       ELSE Goto(p, [calls[p] EXCEPT !.pc = "delKeys", !.keys = keys])

\* delPattern: Redis executes client.del(keys); the call returns
InvalidateList(p) ==
  /\ p \in DOMAIN calls
  /\ calls[p].pc = "delKeys"
  /\ LET c2 == CacheDelKeys(cache, calls[p].keys) IN
       /\ cache' = c2
       /\ End(p, calls[p], [Served EXCEPT !.cache = c2])
       /\ UNCHANGED <<users, nextId, issued, nextJti, loggedOut>>

\* ---------------------------------------------------------- RedisRateLimiter
\* new RedisRateLimiter({prefix: 'custom_limit', windowMs: 60000, max: 50}),
\* with the ceiling scaled down and the window as one clock unit
RateMax == 2
RateWindow == 1

Reqs == 1..MaxReqs

\* req.user?.id?.toString() || req.ip || 'anonymous'
Idents == {"7", "10.0.0.1"}

RateKey(identifier) == <<"custom_limit", identifier>>

\* Redis keeps the counter as a decimal string
NumStr(n) == ToString(n)

\* parseInt(current)
ParseInt(str) == CHOOSE n \in 0..(RateMax + MaxReqs) : ToString(n) = str

\* redis.get(key): null when the key is absent or has expired
RedisGet(c, k) == IF LiveAt(c, k) THEN c[k].data ELSE ""

\* redis.setEx(key, seconds, value)
RedisSetEx(c, k, seconds, value) ==
  [x \in DOMAIN c \cup {k} |->
     IF x = k THEN [data |-> value, exp |-> now + seconds] ELSE c[x]]

\* redis.incr(key): a missing key counts from 0 and gets no TTL
RedisIncr(c, k) ==
  [x \in DOMAIN c \cup {k} |->
     IF x # k THEN c[x]
     ELSE IF LiveAt(c, k) THEN [c[k] EXCEPT !.data = NumStr(ParseInt(c[k].data) + 1)]
     ELSE [data |-> NumStr(1), exp |-> -1]]

\* the request leaves the middleware: next() or a 429; nexts and sent count
\* the calls of next() and the responses written for this request
LimitEnd(p, out) ==
  /\ calls' = [calls EXCEPT ![p].pc = "done", ![p].out = out,
                            ![p].nexts = @ + (IF out = "next" THEN 1 ELSE 0),
                            ![p].sent = @ + (IF out = "429" THEN 1 ELSE 0)]
  /\ resp' = [op |-> "rateLimit", status |-> IF out = "next" THEN 200 ELSE 429,
              kind |-> "reply",
              message |-> IF out = "next" THEN "" ELSE "Too many requests",
              next |-> out = "next"]

\* a command of the try block rejects: control passes to the catch block
LimitThrow(p, command) ==
  /\ calls' = [calls EXCEPT ![p].pc = "catch", ![p].err = command]
  /\ UNCHANGED resp

\* getRedisClient() throws when the client of config/redis.ts is not open
\* ("client" in down: no client was connected, quit() was called on it or
\* its reconnect strategy gave up) and control passes to the catch block;
\* otherwise identifier and key are built and the get is sent, also while
\* Redis is out of reach
LimitBegin(p, identifier) ==
  /\ p \notin DOMAIN calls
  /\ calls' = [x \in DOMAIN calls \cup {p} |->
                 IF x = p
                 THEN [op |-> "rateLimit", pc |-> IF "client" \in down THEN "catch" ELSE "get",
                       ident |-> identifier, count |-> 0, out |-> "",
                       err |-> IF "client" \in down THEN "getRedisClient" ELSE "",
                       nexts |-> 0, sent |-> 0]
                 ELSE calls[x]]
  /\ UNCHANGED <<env, users, nextId, cache, down, now, issued, nextJti, resp, loggedOut>>

\* redis.get answers: count is read and the next command is chosen
LimitGet(p) ==
  /\ p \in DOMAIN calls
  /\ calls[p].pc = "get"
  /\ IF "cache" \in down THEN LimitThrow(p, "get")
     ELSE LET current == RedisGet(cache, RateKey(calls[p].ident))
              count == IF current # "" THEN ParseInt(current) ELSE 0
          IN /\ calls' = [calls EXCEPT
                            ![p].count = count,
                            ![p].pc = IF count >= RateMax THEN "ttl"
                                      ELSE IF count = 0 THEN "setEx" ELSE "incr"]
             /\ UNCHANGED resp
  /\ UNCHANGED <<env, users, nextId, cache, down, now, issued, nextJti, loggedOut>>

\* redis.ttl answers and the 429 is sent
LimitTtl(p) ==
  /\ p \in DOMAIN calls
  /\ calls[p].pc = "ttl"
  /\ IF "cache" \in down THEN LimitThrow(p, "ttl") ELSE LimitEnd(p, "429")
  /\ UNCHANGED <<env, users, nextId, cache, down, now, issued, nextJti, loggedOut>>

\* first request of the window: setEx(key, windowMs / 1000, '1'), then next()
LimitSetEx(p) ==
  /\ p \in DOMAIN calls
  /\ calls[p].pc = "setEx"
  /\ IF "cache" \in down
     THEN LimitThrow(p, "setEx") /\ UNCHANGED cache
     ELSE /\ cache' = RedisSetEx(cache, RateKey(calls[p].ident), RateWindow, NumStr(1))
          /\ LimitEnd(p, "next")
  /\ UNCHANGED <<env, users, nextId, down, now, issued, nextJti, loggedOut>>

\* later request of the window: incr(key), then next()
LimitIncr(p) ==
  /\ p \in DOMAIN calls
  /\ calls[p].pc = "incr"
  /\ IF "cache" \in down
     THEN LimitThrow(p, "incr") /\ UNCHANGED cache
     ELSE /\ cache' = RedisIncr(cache, RateKey(calls[p].ident))
          /\ LimitEnd(p, "next")
  /\ UNCHANGED <<env, users, nextId, down, now, issued, nextJti, loggedOut>>

\* a catch block that answers 429 instead of letting the request through
LimitCatchClosed(p) ==
  /\ p \in DOMAIN calls
  /\ calls[p].pc = "catch"
  /\ LimitEnd(p, "429")
  /\ UNCHANGED <<env, users, nextId, cache, down, now, issued, nextJti, loggedOut>>

\* the catch block: the request is let through
LimitCatch(p) ==
  /\ p \in DOMAIN calls
  /\ calls[p].pc = "catch"
  /\ LimitEnd(p, "next")
  /\ UNCHANGED <<env, users, nextId, cache, down, now, issued, nextJti, loggedOut>>

\* requests to the limiter while Redis answers; the clock stands still, so
\* all of them fall into one window
NextLimiter ==
  \/ \E p \in Reqs, i \in Idents : LimitBegin(p, i)
  \/ \E p \in Reqs : LimitGet(p)
  \/ \E p \in Reqs : LimitTtl(p)
  \/ \E p \in Reqs : LimitSetEx(p)
  \/ \E p \in Reqs : LimitIncr(p)

SpecLimiter == Init /\ [][NextLimiter]_vars

\* the middleware serves requests with the client open, or with a client
\* that is not open for the whole of the behaviour
InitLimiterFault ==
  /\ env = "production"
  /\ users = <<SeedRow>>
  /\ nextId = 2
  /\ cache = <<>>
  /\ down \in {{}, {"client"}}
  /\ now = 0
  /\ issued = {}
  /\ nextJti = 1
  /\ resp = Respond("none", Ok(0, NoToken, NoToken, users, cache, 0, 0))
  /\ loggedOut = {}
  /\ calls = <<>>

\* the same requests while Redis may go out of reach and come back: the
\* commands of an open client are rejected while it is out of reach
NextLimiterFault ==
  \/ NextLimiter
  \/ \E p \in Reqs : LimitCatch(p)
  \/ Break("cache")
  \/ Repair("cache")

SpecLimiterFault == InitLimiterFault /\ [][NextLimiterFault]_vars

\* and while Redis answers and the clock runs, so that a window can end
NextLimiterClock ==
  \/ NextLimiter
  \/ Tick

SpecLimiterClock == Init /\ [][NextLimiterClock]_vars

\* ------------------------------------------- errorHandler, as a request
\* a handler has called next(err)
InitErr ==
  /\ env \in Envs
  /\ users = <<SeedRow>>
  /\ nextId = 2
  /\ cache = <<>>
  /\ down = {}
  /\ now = 0
  /\ issued = {}
  /\ nextJti = 1
  /\ resp = Respond("none", Ok(0, NoToken, NoToken, users, cache, 0, 0))
  /\ loggedOut = {}
  /\ \E e \in Errors, h \in BOOLEAN :
       calls = <<[op |-> "errorHandler", pc |-> "thrown", err |-> e, headersSent |-> h]>>

HandleError ==
  /\ calls[1].pc = "thrown"
  /\ LET r == errorHandler(calls[1].err, calls[1].headersSent) IN
       resp' = [op |-> "errorHandler", status |-> r.status, kind |-> calls[1].err.class,
                message |-> IF r.sent THEN r.body.error ELSE "", next |-> ~r.sent,
                sent |-> r.sent, body |-> r.body]
  /\ calls' = [calls EXCEPT ![1].pc = "done"]
  /\ UNCHANGED <<env, users, nextId, cache, down, now, issued, nextJti, loggedOut>>

NextErr == HandleError

SpecErr == InitErr /\ [][NextErr]_vars

\* ------------------------------------------------ authorize, authorizeOwner
\* role claims a verified token can carry: the Role values ('User' is the
\* default of register, 'Admin' what the user routes ask for) and the
\* lower-case strings of the earlier routes
Roles == {"User", "Admin", "user", "admin"}

ResourceIds == 1..(MaxUsers + 1)

\* res.locals.user as authenticate leaves it; NoUser when it did not run
LocalsUsers ==
  {NoUser} \cup {[id |-> i, email |-> "a@x.io", role |-> r] : i \in ResourceIds, r \in Roles}

\* the guard after authenticate on PUT /users/:id and on DELETE /users/:id
Routes == {"PUT", "DELETE"}

\* authorize(...allowedRoles)
AuthorizeResult(allowedRoles, user) ==
  IF user = NoUser THEN Reply(401, "Authentication required")
  ELSE LET userRole == IF user.role # "" THEN user.role ELSE "user" IN
    IF userRole \notin allowedRoles THEN Reply(403, "Insufficient permissions")
    ELSE [Reply(200, "") EXCEPT !.next = TRUE, !.user = user]

\* authorizeOwner(getUserIdFromRequest)
AuthorizeOwnerResult(user, resourceUserId) ==
  IF user = NoUser THEN Reply(401, "Authentication required")
  ELSE IF user.role = "admin" THEN [Reply(200, "") EXCEPT !.next = TRUE, !.user = user]
  ELSE IF ToString(resourceUserId) # ToString(user.id)
    THEN Reply(403, "You can only access your own resources")
  ELSE [Reply(200, "") EXCEPT !.next = TRUE, !.user = user]

\* a request has passed authenticate and reaches the guard of its route
InitGuard ==
  /\ env = "production"
  /\ users = <<SeedRow>>
  /\ nextId = 2
  /\ cache = <<>>
  /\ down = {}
  /\ now = 0
  /\ issued = {}
  /\ nextJti = 1
  /\ resp = Respond("none", Ok(0, NoToken, NoToken, users, cache, 0, 0))
  /\ loggedOut = {}
  /\ \E rt \in Routes, u \in LocalsUsers, i \in ResourceIds :
       calls = <<[op |-> rt, pc |-> "guard", user |-> u, id |-> i]>>

\* PUT /users/:id: authorizeOwner((req) => req.params.id)
AuthorizeOwner ==
  /\ calls[1].op = "PUT"
  /\ calls[1].pc = "guard"
  /\ resp' = Respond("authorizeOwner", AuthorizeOwnerResult(calls[1].user, calls[1].id))
  /\ calls' = [calls EXCEPT ![1].pc = "done"]
  /\ UNCHANGED <<env, users, nextId, cache, down, now, issued, nextJti, loggedOut>>

\* DELETE /users/:id: authorize('Admin')
Authorize ==
  /\ calls[1].op = "DELETE"
  /\ calls[1].pc = "guard"
  /\ resp' = Respond("authorize", AuthorizeResult({"Admin"}, calls[1].user))
  /\ calls' = [calls EXCEPT ![1].pc = "done"]
  /\ UNCHANGED <<env, users, nextId, cache, down, now, issued, nextJti, loggedOut>>

NextGuard == AuthorizeOwner \/ Authorize

SpecGuard == InitGuard /\ [][NextGuard]_vars


\* ------------------------------------------------------------ connectRedis
\* calls[1] holds the module state of config/redis.ts: redisClient (0 is
\* null, otherwise the number of the client object), the clients whose
\* isOpen is true, connectingPromise and the error it was rejected with,
\* the await the connection attempt is at, the clients a disconnectRedis() awaits quit() on, the state and last
\* result of flushRedis(), and counts of createRedisClient() calls and of
\* attempts; the callers of connectRedis() follow at 2, 3, ...
Callers == 2..(MaxReqs + 1)

\* an entry Redis holds from an earlier run of the process
KeptEntry ==
  [k \in {UserKey(1)} |-> [data |-> Json(toResponseDto(SeedRow)), exp |-> -1]]

InitRedis ==
  /\ env \in {"production", "development"}
  /\ users = <<SeedRow>>
  /\ nextId = 2
  /\ cache = KeptEntry
  /\ down \in SUBSET {"cache"}
  /\ now = 0
  /\ issued = {}
  /\ nextJti = 1
  /\ resp = Respond("none", Ok(0, NoToken, NoToken, users, <<>>, 0, 0))
  /\ loggedOut = {}
  /\ calls = <<[op |-> "redis.ts", redisClient |-> 0, open |-> {},
                connectingPromise |-> "null", rejection |-> "", step |-> "idle",
                quit |-> {},
                flush |-> "idle", flushed |-> "", clients |-> 0, attempts |-> 0]>>

RedisFrame == UNCHANGED <<env, users, nextId, cache, down, now, issued, nextJti, resp, loggedOut>>

\* the promise of the running attempt settles for every caller that holds it
Settle(out) ==
  [x \in DOMAIN calls |->
     IF x > 1 /\ calls[x].pc = "await" THEN [calls[x] EXCEPT !.pc = "done", !.out = out]
     ELSE calls[x]]

\* connectRedis(): the open client, the stored promise (a rejected one hands
\* back the error it was rejected with), or a new attempt
\* (createRedisClient, then connect() is sent; the socket counts as open
\* from the call of connect() on)
ConnectRedis(p) ==
  LET m == calls[1]
      caller(pc, out, stale) ==
        [op |-> "connectRedis", pc |-> pc, out |-> out, on |-> m.attempts, stale |-> stale]
  IN
  /\ p = Len(calls) + 1
  /\ calls' =
       IF m.redisClient # 0 /\ m.redisClient \in m.open
         THEN Append(calls, caller("done", "client", FALSE))
       ELSE IF m.connectingPromise = "pending"
         THEN Append(calls, caller("await", "", FALSE))
       ELSE IF m.connectingPromise = "rejected"
         THEN Append(calls, caller("done", m.rejection, TRUE))
       ELSE Append([calls EXCEPT ![1] = [m EXCEPT
                      !.redisClient = m.clients + 1, !.open = @ \cup {m.clients + 1},
                      !.connectingPromise = "pending", !.step = "connect",
                      !.clients = @ + 1, !.attempts = @ + 1]],
                   [op |-> "connectRedis", pc |-> "await", out |-> "",
                    on |-> m.attempts + 1, stale |-> FALSE])
  /\ RedisFrame

\* await redisClient.connect() settles: the reconnect strategy gives up, the
\* socket is closed and the attempt rejects; or redisClient is read again
\* for ping(): a TypeError when disconnectRedis() has set it to null by now,
\* a rejection at once when quit() has been called on the client (isOpen is
\* false), otherwise the ping is sent
RedisConnect ==
  /\ calls[1].step = "connect"
  /\ calls' =
       IF "cache" \in down
       THEN [Settle("error") EXCEPT ![1].step = "idle", ![1].open = @ \ {calls[1].clients},
                                    ![1].connectingPromise = "rejected",
                                    ![1].rejection = "error"]
       ELSE IF calls[1].redisClient = 0
       THEN [Settle("TypeError") EXCEPT ![1].step = "idle",
                                        ![1].connectingPromise = "rejected",
                                        ![1].rejection = "TypeError"]
       ELSE IF calls[1].redisClient \notin calls[1].open
       THEN [Settle("error") EXCEPT ![1].step = "idle",
                                    ![1].connectingPromise = "rejected",
                                    ![1].rejection = "error"]
       ELSE [calls EXCEPT ![1].step = "ping"]
  /\ RedisFrame

\* await redisClient.ping() settles: the attempt rejects with the socket as
\* it is, or connectingPromise = null and redisClient is returned as the
\* module holds it now, null after a disconnectRedis()
RedisPing ==
  /\ calls[1].step = "ping"
  /\ calls' =
       IF "cache" \in down
       THEN [Settle("error") EXCEPT ![1].step = "idle", ![1].connectingPromise = "rejected",
                                    ![1].rejection = "error"]
       ELSE [Settle(IF calls[1].redisClient = 0 THEN "null" ELSE "client") EXCEPT
               ![1].step = "idle", ![1].connectingPromise = "null"]
  /\ RedisFrame

\* disconnectRedis() finds an open client: quit() is sent, and the client
\* counts as closed from then on; connectingPromise is left alone
DisconnectRedis ==
  /\ calls[1].redisClient # 0
  /\ calls[1].redisClient \in calls[1].open
  /\ calls' = [calls EXCEPT ![1].quit = @ \cup {calls[1].redisClient},
                            ![1].open = @ \ {calls[1].redisClient}]
  /\ RedisFrame

\* await redisClient.quit() on client c settles: redisClient = null,
\* whichever client the module holds by now; a rejection is logged and
\* redisClient stays
DisconnectQuit(c) ==
  /\ c \in calls[1].quit
  /\ calls' = IF "cache" \in down THEN [calls EXCEPT ![1].quit = @ \ {c}]
              ELSE [calls EXCEPT ![1].quit = @ \ {c}, ![1].redisClient = 0]
  /\ RedisFrame

\* flushRedis(): false outside development or without an open client,
\* otherwise flushDb() is sent
FlushRedis ==
  /\ calls[1].flush = "idle"
  /\ calls' =
       IF env # "development" THEN [calls EXCEPT ![1].flushed = "false"]
       ELSE IF calls[1].redisClient = 0 \/ calls[1].redisClient \notin calls[1].open
         THEN [calls EXCEPT ![1].flushed = "false"]
       ELSE [calls EXCEPT ![1].flush = "sent", ![1].flushed = ""]
  /\ RedisFrame

\* await redisClient.flushDb() settles: every key is gone and true is
\* returned, or the rejection is logged and false is returned
FlushRedisDone ==
  /\ calls[1].flush = "sent"
  /\ calls' = [calls EXCEPT ![1].flush = "idle",
                            ![1].flushed = IF "cache" \in down THEN "false" ELSE "true"]
  /\ cache' = IF "cache" \in down THEN cache ELSE <<>>
  /\ UNCHANGED <<env, users, nextId, down, now, issued, nextJti, resp, loggedOut>>

NextRedis ==
  \/ \E p \in Callers : ConnectRedis(p)
  \/ RedisConnect
  \/ RedisPing
  \/ DisconnectRedis
  \/ \E c \in 1..MaxReqs : DisconnectQuit(c)
  \/ FlushRedis
  \/ FlushRedisDone
  \/ Break("cache")
  \/ Repair("cache")

SpecRedis == InitRedis /\ [][NextRedis]_vars

\* ------------------------------------------------------- process start-up
\* getRedisClient(): throws unless a client exists and is open
getRedisClient(m) ==
  IF m.redisClient # 0 /\ m.redisClient \in m.open THEN "client" ELSE "throw"

\* the process before index.ts is loaded; calls[1] is the process with the
\* module state of config/redis.ts (redisClient, 0 for null, the clients
\* whose isOpen is true, the count of createRedisClient() calls), the
\* cleanup() calls under way follow at 2, 3, ... redisClient = 0 is a fresh
\* node process; redisClient = 1 is a process in which connectRedis() had
\* completed before the entry module was imported (a test runner that
\* connects first); connectingPromise is null in both. down holds the
\* stores that refuse connections.
InitBoot ==
  /\ env \in Envs
  /\ users = <<SeedRow>>
  /\ nextId = 2
  /\ cache = <<>>
  /\ down \in SUBSET Stores
  /\ now = 0
  /\ issued = {}
  /\ nextJti = 1
  /\ resp = Respond("none", Ok(0, NoToken, NoToken, users, cache, 0, 0))
  /\ loggedOut = {}
  /\ \E c \in {0, 1} :
       calls = <<[op |-> "boot", pc |-> "load", redisClient |-> c,
                  open |-> IF c = 0 THEN {} ELSE {c}, clients |-> c, connected |-> c # 0,
                  db |-> FALSE, dbChecked |-> FALSE, failed |-> FALSE, listening |-> FALSE,
                  cleaned |-> FALSE, exit |-> -1, early |-> FALSE]>>

BootFrame == UNCHANGED <<env, users, nextId, cache, down, now, issued, nextJti, resp, loggedOut>>

\* the process has not exited
Alive == calls[1].pc # "dead"

\* the imports of index.ts are evaluated: './app' pulls in
\* rateLimit.middleware, whose top level builds redisRateLimiter with
\* client: getRedisClient(); a throw there ends the process with code 1
\* before any handler of index.ts is installed; otherwise the handlers are
\* installed, startServer is called and prisma.$connect() is sent
BootLoad ==
  /\ calls[1].pc = "load"
  /\ calls' = [calls EXCEPT
                 ![1].early = ~calls[1].connected,
                 ![1].pc = IF getRedisClient(calls[1]) = "throw" THEN "dead" ELSE "connect",
                 ![1].exit = IF getRedisClient(calls[1]) = "throw" THEN 1 ELSE -1]
  /\ BootFrame

\* cleanup() is called in the process state cs: disconnectRedis() sends
\* quit() to the client the module holds when it is open, and the client
\* counts as closed from then on; disconnectDatabase() sends $disconnect();
\* code is what the caller hands to process.exit afterwards
StartCleanup(cs, code) ==
  LET m == cs[1]
      c == IF getRedisClient(m) = "client" THEN m.redisClient ELSE 0
  IN Append([cs EXCEPT ![1].open = @ \ {c}],
            [op |-> "cleanup", pc |-> "await", code |-> code, quit |-> c,
             disconnect |-> TRUE])

\* the catch block of startServer in the process state cs: cleanup() is
\* called and awaited
BootCatch(cs) == [StartCleanup(cs, 1) EXCEPT ![1].pc = "catch", ![1].failed = TRUE]

\* connectDatabase: await prisma.$connect() settles; SELECT 1 is sent, or
\* the rejection is rethrown into the catch block of startServer
BootConnectDatabase ==
  /\ Alive
  /\ calls[1].pc = "connect"
  /\ calls' = IF "db" \in down THEN BootCatch(calls)
              ELSE [calls EXCEPT ![1].db = TRUE, ![1].pc = "query"]
  /\ BootFrame

\* connectDatabase: await prisma.$queryRaw`SELECT 1` settles: the catch
\* block runs with the database connected, or connectRedis() is called: an
\* open client is returned as it is and server.listen is called, otherwise
\* createRedisClient and connect() is sent on the new client
BootCheckDatabase ==
  /\ Alive
  /\ calls[1].pc = "query"
  /\ calls' =
       IF "db" \in down THEN BootCatch(calls)
       ELSE IF getRedisClient(calls[1]) = "client"
         THEN [calls EXCEPT ![1].dbChecked = TRUE, ![1].pc = "listen"]
       ELSE [calls EXCEPT ![1].dbChecked = TRUE, ![1].pc = "redisConnect",
                          ![1].redisClient = calls[1].clients + 1,
                          ![1].open = @ \cup {calls[1].clients + 1},
                          ![1].clients = @ + 1]
  /\ BootFrame

\* connectRedis: await redisClient.connect() settles: the socket is closed
\* and the rejection reaches the catch block; or redisClient is read again
\* for ping(), a TypeError when a cleanup has set it to null by now and a
\* rejection at once when a cleanup has called quit() on it; otherwise the
\* ping is sent
BootRedisConnect ==
  /\ Alive
  /\ calls[1].pc = "redisConnect"
  /\ calls' =
       IF "cache" \in down
         THEN BootCatch([calls EXCEPT ![1].open = @ \ {calls[1].clients}])
       ELSE IF getRedisClient(calls[1]) = "throw" THEN BootCatch(calls)
       ELSE [calls EXCEPT ![1].pc = "redisPing"]
  /\ BootFrame

\* connectRedis: await redisClient.ping() settles: the rejection reaches the
\* catch block with the client as it is, or connectRedis() has completed
\* and server.listen is called
BootRedisPing ==
  /\ Alive
  /\ calls[1].pc = "redisPing"
  /\ calls' = IF "cache" \in down THEN BootCatch(calls)
              ELSE [calls EXCEPT ![1].connected = TRUE, ![1].pc = "listen"]
  /\ BootFrame

\* startServer: createApp(), http.createServer(app), server.listen(port)
\* have been called; the server is listening, or the port is in use and the
\* 'error' handler calls process.exit(1)
BootListen(inUse) ==
  /\ Alive
  /\ calls[1].pc = "listen"
  /\ calls' = IF inUse THEN [calls EXCEPT ![1].exit = 1, ![1].pc = "dead"]
              ELSE [calls EXCEPT ![1].listening = TRUE, ![1].pc = "up"]
  /\ BootFrame

\* the handlers of index.ts are installed and a cleanup() can still be started
CanHandle == Alive /\ calls[1].pc # "load" /\ Len(calls) <= MaxCalls

\* SIGINT or SIGTERM arrives: cleanup(), then process.exit(0)
BootSignal ==
  /\ CanHandle
  /\ calls' = StartCleanup(calls, 0)
  /\ BootFrame

\* uncaughtException or unhandledRejection: cleanup(), then process.exit(1)
BootUncaught ==
  /\ CanHandle
  /\ calls' = StartCleanup(calls, 1)
  /\ BootFrame

\* an answer to cleanup p has been taken into the process state cs: when it
\* was the last one Promise.all waited for, cleanup() returns and its
\* caller calls process.exit(code) in the same turn
CleanupExit(cs, p) ==
  IF cs[p].quit = 0 /\ ~cs[p].disconnect
  THEN [cs EXCEPT ![p].pc = "done", ![1].cleaned = TRUE,
                  ![1].exit = cs[p].code, ![1].pc = "dead"]
  ELSE cs

\* disconnectRedis: await redisClient.quit() settles: redisClient = null,
\* whichever client the module holds by now, or the rejection is logged and
\* redisClient stays
CleanupQuit(p) ==
  /\ Alive
  /\ p \in DOMAIN calls \ {1}
  /\ calls[p].quit # 0
  /\ calls' = CleanupExit([calls EXCEPT
                             ![p].quit = 0,
                             ![1].redisClient = IF "cache" \in down THEN @ ELSE 0], p)
  /\ BootFrame

\* disconnectDatabase: await prisma.$disconnect() settles; a rejection is logged
CleanupDisconnect(p) ==
  /\ Alive
  /\ p \in DOMAIN calls \ {1}
  /\ calls[p].disconnect
  /\ calls' = CleanupExit([calls EXCEPT
                             ![p].disconnect = FALSE,
                             ![1].db = IF "db" \in down THEN @ ELSE FALSE], p)
  /\ BootFrame

\* the cleanup() calls of a behaviour: MaxCalls from signals and uncaught
\* errors, and the one of the catch block
Cleanups == 2..(MaxCalls + 2)

NextBoot ==
  \/ BootLoad
  \/ BootConnectDatabase
  \/ BootCheckDatabase
  \/ BootRedisConnect
  \/ BootRedisPing
  \/ \E inUse \in BOOLEAN : BootListen(inUse)
  \/ BootSignal
  \/ BootUncaught
  \/ \E p \in Cleanups : CleanupQuit(p)
  \/ \E p \in Cleanups : CleanupDisconnect(p)
  \/ \E s \in Stores : Break(s)

SpecBoot == InitBoot /\ [][NextBoot]_vars

\* ------------------- the protected routes of routes/users.routes.ts
\* authenticate of middlewares/auth.middleware.ts: the header and jwt.verify
\* decide; the session cache is not consulted
LegacyAuthenticate(header) ==
  LET v == Verify(header.token, AccessSecret) IN
    IF header.scheme # "Bearer" THEN Reply(401, "No token provided")
    ELSE IF v = "TokenExpiredError" THEN Reply(401, "Token expired")
    ELSE IF v = "JsonWebTokenError" THEN Reply(401, "Invalid token")
    ELSE [Reply(200, "") EXCEPT !.next = TRUE, !.user = Decoded(header.token)]

\* a token with role 'admin', signed with the same secret at time 0 by a
\* deployment that assigns the role; the routes of this router sign 'user'
AdminToken ==
  [sig |-> AccessSecret, id |-> 2, email |-> "root@x.io", role |-> "admin",
   jti |-> NoJti, iat |-> 0, exp |-> AccessTTL]

\* the headers a client of the router sends
RouterHeaders == Headers \cup {Bearer(AdminToken)}

\* `users:list:${page}:${limit}:${sortBy}:${order}` of the one query that
\* is followed, as validate(paginationSchema) leaves it: page 1, limit 10,
\* no sortBy, and the default 'desc' of order
RouterQuery == "1:10:undefined:desc"

\* the route is entered behind its middlewares: guard is what the last of
\* them left; when it called next() the route's first command is sent
RouterEnter(p, rec, guard) ==
  /\ p \notin DOMAIN calls
  /\ IF ~guard.next THEN Exit(p, rec, guard)
     ELSE Goto(p, [rec EXCEPT !.locals = guard.user])

\* a command of the route is rejected: its catch block answers 500
RouterCatch(p) == Exit(p, calls[p], Reply(500, "Internal server error"))

\* GET /: authenticate, then cache.get is sent
RouterListBegin(p, header) ==
  RouterEnter(p, Call("GET /", "cache", [query |-> RouterQuery]), LegacyAuthenticate(header))

\* GET /: cache.get answers; a hit is returned, else findMany and count are sent
RouterListCache(p) ==
  /\ At(p, "GET /", "cache")
  /\ LET rec == calls[p]
         cached == CacheGet(cache, ListKey(rec.arg.query)) IN
       IF cached # NoToken THEN Exit(p, [rec EXCEPT !.dto = cached], Reply(200, "cache"))
       ELSE Goto(p, [rec EXCEPT !.pc = "findMany", !.dto = [users |-> {}, total |-> 0]])

\* GET /: prisma.user.findMany answers, before or after count (pc "rows":
\* count has answered); a rejection rejects Promise.all at once; with both
\* answers the result is built and cache.set is sent
RouterListFind(p) ==
  /\ p \in DOMAIN calls
  /\ calls[p].op = "GET /"
  /\ calls[p].pc \in {"findMany", "rows"}
  /\ IF "db" \in down THEN RouterCatch(p)
     ELSE Goto(p, [calls[p] EXCEPT
                     !.pc = IF calls[p].pc = "findMany" THEN "count" ELSE "set",
                     !.dto.users = {toResponseDto(users[i]) : i \in DOMAIN users}])

\* GET /: prisma.user.count answers, before or after findMany (pc "count":
\* findMany has answered); a rejection rejects Promise.all at once; with
\* both answers the result is built and cache.set is sent
RouterListCount(p) ==
  /\ p \in DOMAIN calls
  /\ calls[p].op = "GET /"
  /\ calls[p].pc \in {"findMany", "count"}
  /\ IF "db" \in down THEN RouterCatch(p)
     ELSE Goto(p, [calls[p] EXCEPT
                     !.pc = IF calls[p].pc = "findMany" THEN "rows" ELSE "set",
                     !.dto.total = Cardinality(DOMAIN users)])

\* GET /: Redis executes cache.set(cacheKey, result, 300)
RouterListSet(p) ==
  /\ At(p, "GET /", "set")
  /\ cache' = CacheSet(cache, ListKey(calls[p].arg.query), calls[p].dto, ListTTL)
  /\ End(p, calls[p], Reply(200, "database"))
  /\ UNCHANGED <<users, nextId, issued, nextJti, loggedOut>>

\* GET /:id: authenticate, then cache.get is sent
RouterGetBegin(p, header, id) ==
  RouterEnter(p, Call("GET /:id", "cache", [id |-> id]), LegacyAuthenticate(header))

\* GET /:id: cache.get answers; a hit is returned, else findUnique is sent
RouterGetCache(p) ==
  /\ At(p, "GET /:id", "cache")
  /\ LET rec == calls[p]
         cached == CacheGet(cache, UserKey(rec.arg.id)) IN
       IF cached # NoToken THEN Exit(p, [rec EXCEPT !.dto = cached], Reply(200, "cache"))
       ELSE Goto(p, [rec EXCEPT !.pc = "find"])

\* GET /:id: findUnique answers: 404, or cache.set is sent
RouterGetFind(p) ==
  /\ At(p, "GET /:id", "find")
  /\ LET rec == calls[p] IN
       IF "db" \in down THEN RouterCatch(p)
       ELSE IF findById(users, rec.arg.id) = {}
         THEN Exit(p, rec, Reply(404, "User not found"))
       ELSE Goto(p, [rec EXCEPT !.pc = "set", !.dto = toResponseDto(users[rec.arg.id])])

\* GET /:id: Redis executes cache.set(cacheKey, user, 600)
RouterGetSet(p) ==
  /\ At(p, "GET /:id", "set")
  /\ cache' = CacheSet(cache, UserKey(calls[p].arg.id), calls[p].dto, UserTTL)
  /\ End(p, calls[p], Reply(200, "database"))
  /\ UNCHANGED <<users, nextId, issued, nextJti, loggedOut>>

\* PUT /:id: authenticate, authorizeOwner, then prisma.user.update is sent
RouterPutBegin(p, header, id, email, name) ==
  LET a == LegacyAuthenticate(header) IN
    RouterEnter(p, Call("PUT /:id", "update", [id |-> id, email |-> email, name |-> name]),
                IF a.next THEN AuthorizeOwnerResult(a.user, id) ELSE a)

\* PUT /:id: prisma.user.update answers: a rejection (the row is gone, the
\* email is taken) is answered 500; else cache.del and delPattern are sent
RouterPutWrite(p) ==
  /\ At(p, "PUT /:id", "update")
  /\ LET rec == calls[p]
         data == rec.arg
     IN IF \/ "db" \in down
           \/ findById(users, data.id) = {}
           \/ data.email # "" /\ findByEmail(users, data.email) \ {data.id} # {}
        THEN RouterCatch(p)
        ELSE /\ users' = update(users, data.id, data)
             /\ calls' = Put(p, [rec EXCEPT !.pc = "invalidate"])
             /\ UNCHANGED <<env, nextId, cache, down, now, issued, nextJti, resp, loggedOut>>

\* DELETE /:id: authenticate, authorize('admin'), then prisma.user.delete is sent
RouterDeleteBegin(p, header, id) ==
  LET a == LegacyAuthenticate(header) IN
    RouterEnter(p, Call("DELETE /:id", "delete", [id |-> id]),
                IF a.next THEN AuthorizeResult({"admin"}, a.user) ELSE a)

\* DELETE /:id: prisma.user.delete answers: a rejection (the row is gone)
\* is answered 500; else cache.del and delPattern are sent
RouterDeleteWrite(p) ==
  /\ At(p, "DELETE /:id", "delete")
  /\ LET rec == calls[p] IN
       IF "db" \in down \/ findById(users, rec.arg.id) = {} THEN RouterCatch(p)
       ELSE /\ users' = delete(users, rec.arg.id)
            /\ calls' = Put(p, [rec EXCEPT !.pc = "invalidate"])
            /\ UNCHANGED <<env, nextId, cache, down, now, issued, nextJti, resp, loggedOut>>

\* GET /me/profile: authenticate, then findUnique of req.user.id is sent
RouterProfileBegin(p, header) ==
  LET a == LegacyAuthenticate(header) IN
    RouterEnter(p, Call("GET /me/profile", "find", [id |-> a.user.id]), a)

\* GET /me/profile: findUnique answers: 404, or the row without its hash
RouterProfileFind(p) ==
  /\ At(p, "GET /me/profile", "find")
  /\ LET rec == calls[p] IN
       IF "db" \in down THEN RouterCatch(p)
       ELSE IF findById(users, rec.arg.id) = {}
         THEN Exit(p, rec, Reply(404, "User not found"))
       ELSE Exit(p, [rec EXCEPT !.dto = toResponseDto(users[rec.arg.id])], Reply(200, ""))

\* ================================================================== specs
\* no request is in flight
Idle == calls = <<>>

\* a session request enters its handler. Every request comes from a client
\* address that is below the ceilings of the limiters in front of the routes
\* (authRateLimiter on /login, apiRateLimiters.write on /register and
\* /refresh, apiRateLimiters.read and .write on the earlier router), which
\* count per address in the memory of the process, and carries a body that
\* passes validate(); the 429 of a limiter and the 400 of validate() are
\* not among the answers followed here
SessionBegin(p) ==
  \/ \E e \in Emails, w \in Passwords : LoginBegin(p, e, w)
  \/ \E t \in Presentable : RefreshBegin(p, t)
  \/ \E h \in Headers : LogoutBegin(p, h)
  \/ \E h \in Headers : AuthenticateBegin(p, h)

LoginStep(p) ==
  \/ LoginFind(p)
  \/ LoginCompare(p)
  \/ LoginSetRefresh(p)
  \/ LoginSetToken(p)

RefreshStep(p) ==
  \/ RefreshFind(p)
  \/ RefreshGet(p)
  \/ RefreshSet(p)

LogoutStep(p) ==
  \/ LogoutExists(p)
  \/ LogoutFind(p)
  \/ LogoutDelToken(p)
  \/ LogoutDelRefresh(p)

\* an awaited command of a session request is answered
SessionStep(p) ==
  \/ LoginStep(p)
  \/ RefreshStep(p)
  \/ LogoutStep(p)
  \/ AuthenticateExists(p)

RegisterStep(p) ==
  \/ RegisterFind(p)
  \/ RegisterHash(p)
  \/ RegisterCreate(p)
  \/ RegisterSet(p)

\* without users:list keys delPattern stops after client.keys
DeleteUserStep(p) ==
  \/ DeleteUserExists(p)
  \/ DeleteUserWrite(p)
  \/ InvalidateUser(p)
  \/ InvalidatePattern(p)

\* the requests of the auth routes arrive one after the other; the clock
\* runs between and within them
Next ==
  \/ Idle /\ SessionBegin(1)
  \/ Idle /\ \E e \in Emails, w \in Passwords : RegisterBegin(1, e, w)
  \/ SessionStep(1)
  \/ RegisterStep(1)
  \/ Return(1)
  \/ Tick

Spec == Init /\ [][Next]_vars

\* the session requests of the users that exist, and DELETE /users/:id
NextSession ==
  \/ Idle /\ SessionBegin(1)
  \/ Idle /\ \E i \in 1..MaxUsers : DeleteUserBegin(1, i)
  \/ SessionStep(1)
  \/ DeleteUserStep(1)
  \/ Return(1)
  \/ Tick

SpecSession == Init /\ [][NextSession]_vars

\* the token POST /auth/login of the earlier routes signs for the seed user
\* at time 0
LegacyToken ==
  [sig |-> AccessSecret, id |-> 1, email |-> "a@x.io", role |-> "user",
   jti |-> NoJti, iat |-> 0, exp |-> AccessTTL]

\* login, logout and authenticate next to POST /auth/login of the earlier
\* router, which hands out tokens without a jti; the router as a whole is
\* NextRouter
NextLegacy ==
  \/ Idle /\ LoginBegin(1, SeedRow.email, "pw1")
  \/ Idle /\ \E t \in {a \in issued : a.sig = AccessSecret} : LogoutBegin(1, Bearer(t))
  \/ Idle /\ \E h \in Headers : AuthenticateBegin(1, h)
  \/ Idle /\ \E e \in Emails, w \in Passwords : LegacyLoginBegin(1, e, w)
  \/ LoginStep(1)
  \/ LogoutStep(1)
  \/ AuthenticateExists(1)
  \/ LegacyLoginFind(1)
  \/ LegacyLoginCompare(1)
  \/ Return(1)
  \/ Tick

SpecLegacy == Init /\ [][NextLegacy]_vars

\* the earlier router on its own: its login and register hand out tokens
\* without a jti, its protected routes read and write users rows and the
\* user:<id> and users:list:* entries; one request at a time
RouterBegin(p) ==
  \/ \E e \in Emails, w \in Passwords : LegacyLoginBegin(p, e, w)
  \/ \E e \in Emails : LegacyRegisterBegin(p, e, "pw1")
  \/ \E h \in RouterHeaders : RouterListBegin(p, h)
  \/ \E h \in RouterHeaders, i \in 1..MaxUsers : RouterGetBegin(p, h, i)
  \/ \E h \in RouterHeaders, i \in 1..MaxUsers, e \in {"", "b@x.io"} :
       RouterPutBegin(p, h, i, e, "Zed")
  \/ \E h \in RouterHeaders, i \in 1..MaxUsers : RouterDeleteBegin(p, h, i)
  \/ \E h \in RouterHeaders : RouterProfileBegin(p, h)

RouterStep(p) ==
  \/ LegacyLoginFind(p)
  \/ LegacyLoginCompare(p)
  \/ LegacyRegisterFind(p)
  \/ LegacyRegisterHash(p)
  \/ LegacyRegisterCreate(p)
  \/ RouterListCache(p)
  \/ RouterListFind(p)
  \/ RouterListCount(p)
  \/ RouterListSet(p)
  \/ RouterGetCache(p)
  \/ RouterGetFind(p)
  \/ RouterGetSet(p)
  \/ RouterPutWrite(p)
  \/ RouterDeleteWrite(p)
  \/ RouterProfileFind(p)
  \/ InvalidateUser(p)
  \/ InvalidatePattern(p)
  \/ InvalidateList(p)

NextRouter ==
  \/ Idle /\ RouterBegin(1)
  \/ RouterStep(1)
  \/ Return(1)
  \/ Tick

SpecRouter == Init /\ [][NextRouter]_vars

\* the session requests and register while either store may fail and
\* recover between any two commands
NextFault ==
  \/ Idle /\ SessionBegin(1)
  \/ Idle /\ \E e \in Emails, w \in Passwords : RegisterBegin(1, e, w)
  \/ SessionStep(1)
  \/ RegisterStep(1)
  \/ Return(1)
  \/ \E s \in Stores : Break(s)
  \/ \E s \in Stores : Repair(s)

SpecFault == Init /\ [][NextFault]_vars

\* the session requests while the session cache may drop and come back
\* between any two commands; the clock stands still
NextOutage ==
  \/ Idle /\ SessionBegin(1)
  \/ Idle /\ \E h \in Headers : OptionalAuth(1, h)
  \/ SessionStep(1)
  \/ Return(1)
  \/ Break("cache")
  \/ Repair("cache")

SpecOutage == Init /\ [][NextOutage]_vars

\* every call in flight is a refreshToken call
OnlyRefresh == \A q \in DOMAIN calls : calls[q].op = "refresh"

\* sessions are set up by logins, then refresh calls overlap
NextRace ==
  \/ Idle /\ \E e \in Emails, w \in Passwords : LoginBegin(1, e, w)
  \/ LoginStep(1)
  \/ At(1, "login", "done") /\ Return(1)
  \/ \E p \in Calls, t \in Presentable : OnlyRefresh /\ RefreshBegin(p, t)
  \/ \E p \in Calls : RefreshStep(p)
  \/ Tick

SpecRace == Init /\ [][NextRace]_vars

\* sessions are set up by logins; then refresh calls and logouts overlap,
\* and no login follows
NextLogoutRace ==
  \/ Idle /\ \E e \in Emails, w \in Passwords : LoginBegin(1, e, w)
  \/ LoginStep(1)
  \/ At(1, "login", "done") /\ Return(1)
  \/ \E p \in Calls, t \in Presentable :
       (\A q \in DOMAIN calls : calls[q].op # "login") /\ RefreshBegin(p, t)
  \/ \E p \in Calls, t \in Presentable :
       (\A q \in DOMAIN calls : calls[q].op # "login") /\ LogoutBegin(p, Bearer(t))
  \/ \E p \in Calls : RefreshStep(p)
  \/ \E p \in Calls : LogoutStep(p)
  \/ Tick

SpecLogoutRace == Init /\ [][NextLogoutRace]_vars

\* register and login calls overlap
NextRegister ==
  \/ \E p \in Calls, e \in Emails, w \in Passwords : RegisterBegin(p, e, w)
  \/ \E p \in Calls, e \in Emails, w \in Passwords : LoginBegin(p, e, w)
  \/ \E p \in Calls : RegisterStep(p)
  \/ \E p \in Calls : LoginStep(p)

SpecRegister == Init /\ [][NextRegister]_vars

\* the calls of UserService overlap while the clock runs
NextUsers ==
  \/ \E p \in Calls, i \in 1..MaxUsers : GetUserBegin(p, i)
  \/ \E p \in Calls : GetAllBegin(p)
  \/ \E p \in Calls, e \in Emails : CreateUserBegin(p, e, "Bob")
  \/ \E p \in Calls, i \in 1..MaxUsers, e \in Emails \cup {""}, n \in {"", "Bob"} :
       UpdateUserBegin(p, i, e, n)
  \/ \E p \in Calls, i \in 1..MaxUsers : DeleteUserBegin(p, i)
  \/ \E p \in Calls : GetUserCache(p) \/ GetUserFind(p) \/ GetUserSet(p)
  \/ \E p \in Calls : GetAllCache(p) \/ GetAllFind(p) \/ GetAllCount(p) \/ GetAllSet(p)
  \/ \E p \in Calls : CreateUserFind(p) \/ CreateUserWrite(p)
  \/ \E p \in Calls : UpdateUserFind(p) \/ UpdateUserEmail(p) \/ UpdateUserWrite(p)
  \/ \E p \in Calls : DeleteUserExists(p) \/ DeleteUserWrite(p)
  \/ \E p \in Calls : InvalidateUser(p) \/ InvalidatePattern(p) \/ InvalidateList(p)

SpecUsers == Init /\ [][NextUsers]_vars

\* ================================================================ claims
Unexpired(t) == now < t.exp

\* the calls of op that have returned with kind
Ended(op, kind) ==
  {p \in DOMAIN calls : calls[p].pc = "done" /\ calls[p].op = op /\ calls[p].kind = kind}

\* call p takes this step
Stepped(p) == p \in DOMAIN calls' /\ (p \notin DOMAIN calls \/ calls'[p] # calls[p])

\* refresh tokens of user u that refreshToken would accept now
Accepted(u) == {t \in Presentable : t.id = u /\ RefreshResult(t).kind = "ok"}

Admits(t) == AuthenticateResult(Bearer(t)).next

\* the kind of a token, by the lifetime it was signed with
RefreshKind(t) == t.exp - t.iat = RefreshTTL

AccessKind(t) == t.exp - t.iat = AccessTTL

\* C1: once logout(T) has completed successfully, a request bearing T is
\* answered 401 and never reaches next(), in every later state, although T
\* still verifies. (While the session cache does not answer authenticate
\* answers 401 for every token with a jti, so the statement is at stake only
\* when the cache answers.)
C1_LogoutRevokes ==
  /\ \A t \in loggedOut :
       /\ AuthenticateResult(Bearer(t)).status = 401
       /\ ~AuthenticateResult(Bearer(t)).next
  /\ \A p \in Ended("authenticate", "reply") :
       calls[p].arg.token \in loggedOut =>
          (calls[p].status = 401 /\ calls[p].locals = NoUser /\ ~resp.next)

\* C2: after refreshToken(R) returned a pair with refresh token R', and
\* until the next request, a refreshToken(R') that finds both stores
\* answering succeeds while R' is unexpired, and every other refresh token
\* of that user, R among them, fails with Unauthorized.
C2_Rotation ==
  \A p \in Ended("refresh", "ok") :
    LET new == calls[p].out.refreshToken IN
      /\ (down = {} /\ Unexpired(new)) => RefreshResult(new).kind = "ok"
      /\ \A t \in issued :
           (t.id = new.id /\ t # new) => RefreshResult(t).kind = "Unauthorized"

\* C3: for each user at most one refresh token would be accepted, the one
\* stored under refreshToken:<userId>; after a login every refresh token
\* handed to that user earlier is rejected.
C3_SingleRefresh ==
  /\ \A u \in {t.id : t \in Presentable} :
       /\ Cardinality(Accepted(u)) <= 1
       /\ \A t \in Accepted(u) : cache[RefreshKey(u)].data = Json(t)
  /\ \A p \in Ended("login", "ok") :
       \A t \in issued :
         (t.id = calls[p].user.id /\ t # calls[p].out.refreshToken) =>
            RefreshResult(t).kind = "Unauthorized"

\* C4: after a successful register the session cache looks as after a
\* login: refreshToken:<userId> holds the returned refresh token, token:<jti>
\* exists, and authenticate admits the returned access token.
C4_RegisterAsLogin ==
  \A p \in Ended("register", "ok") :
    Unexpired(calls[p].out.token) =>
       /\ CacheGet(cache, RefreshKey(calls[p].user.id)) = calls[p].out.refreshToken
       /\ CacheExists(cache, TokenKey(calls[p].out.token.jti))
       /\ Admits(calls[p].out.token)

\* C5: when refreshToken returns, token:<jti> of the new access token is in
\* the session cache, mapped to the user id.
C5_RefreshRegistersJti ==
  \A p \in Ended("refresh", "ok") :
    Unexpired(calls[p].out.token) =>
       /\ CacheExists(cache, TokenKey(calls[p].out.token.jti))
       /\ Parse(cache[TokenKey(calls[p].out.token.jti)].data) = [userId |-> calls[p].user.id]

\* C6: a register(email, password) that succeeds leaves a state in which
\* login(email, password) succeeds with an access token whose id claim is
\* the id of the user just created.
C6_RegisterThenLogin ==
  \A p \in Ended("register", "ok") :
    LET r == LoginResult(calls[p].arg.email, calls[p].arg.password) IN
      /\ r.kind = "ok"
      /\ r.access.id = calls[p].user.id

Outcome(r) == <<r.kind, r.status, r.message>>

\* C7: a failing login answers the same (kind, status, message) whether the
\* email is unknown or the email is registered and the password is not
\* accepted, and neither writes to the session cache.
C7_LoginFailuresAlike ==
  /\ \A e1 \in Emails, e2 \in Emails, p1 \in Passwords, p2 \in Passwords :
       LET r1 == LoginResult(e1, p1)
           r2 == LoginResult(e2, p2)
       IN (findByEmail(users, e1) = {} /\ findByEmail(users, e2) # {} /\ r2.kind # "ok") =>
            /\ Outcome(r1) = <<"Unauthorized", 401, "Invalid credentials">>
            /\ Outcome(r2) = Outcome(r1)
            /\ r1.cache = cache
            /\ r2.cache = cache
  /\ \A p \in DOMAIN calls :
       (calls[p].op = "login" /\ calls[p].pc = "done" /\ calls[p].out = NoPair) =>
          Outcome(calls[p]) = <<"Unauthorized", 401, "Invalid credentials">>

\* the conditions under which refreshToken may issue
RefreshPre(t) ==
  /\ t.sig = RefreshSecret
  /\ Unexpired(t)
  /\ t.id \in DOMAIN users
  /\ RefreshKey(t.id) \in DOMAIN cache
  /\ cache[RefreshKey(t.id)].data = Json(t)

\* C9: refreshToken(R) issues a pair only if R verifies against the refresh
\* secret, its user exists and refreshToken:<userId> holds exactly R; in
\* every other case it fails with Unauthorized and the cache is untouched.
C9_RefreshGuard ==
  /\ \A t \in Presentable :
       LET r == RefreshResult(t) IN
         /\ r.kind = "ok" => RefreshPre(t)
         /\ ~RefreshPre(t) =>
              (r.kind = "Unauthorized" /\ r.status = 401 /\ r.cache = cache /\ r.jtis = 0)
  /\ \A p \in Ended("refresh", "ok") :
       /\ calls[p].arg.sig = RefreshSecret
       /\ calls[p].user.id = calls[p].arg.id
       /\ calls[p].stored = calls[p].arg
  /\ \A p \in DOMAIN calls :
       (calls[p].op = "refresh" /\ calls[p].pc = "done" /\ calls[p].kind # "ok") =>
          /\ calls[p].kind = "Unauthorized"
          /\ calls[p].status = 401
          /\ calls[p].out = NoPair
          /\ calls[p].writeAt = 0

C9_Witness ==
  \E p \in Ended("refresh", "Unauthorized") :
    /\ calls[p].stored = NoToken
    /\ calls[p].readAt > 0
    /\ Verify(calls[p].arg, RefreshSecret) = "ok"
    /\ calls[p].arg.id \in DOMAIN users
    /\ RefreshKey(calls[p].arg.id) \notin DOMAIN cache
    /\ Accepted(calls[p].arg.id) = {}

\* C10: authenticate calls next(), with the decoded {id, email, role}
\* attached, exactly when the header is a Bearer header, the token verifies
\* against the access secret and is unexpired, and it has no jti or
\* token:<jti> is in the session cache; otherwise it answers 401 or 500.
C10_AuthenticateIff ==
  /\ \A h \in Headers :
       LET r == AuthenticateResult(h)
           t == h.token
       IN /\ r.next <=>
               /\ h.scheme = "Bearer"
               /\ t.sig = AccessSecret
               /\ Unexpired(t)
               /\ (t.jti = NoJti \/ TokenKey(t.jti) \in DOMAIN cache)
          /\ r.next => r.user = Decoded(t)
          /\ ~r.next => (r.status \in {401, 500} /\ r.user = NoUser)
  /\ \A p \in Ended("authenticate", "reply") :
       LET h == calls[p].arg IN
         /\ calls[p].status \in {200, 401, 500}
         /\ calls[p].status = 200 <=> calls[p].locals # NoUser
         /\ calls[p].status = 200 =>
              /\ h.scheme = "Bearer"
              /\ h.token.sig = AccessSecret
              /\ calls[p].locals = Decoded(h.token)
              /\ resp.next
         /\ calls[p].status # 200 => ~resp.next

C10_Witness ==
  /\ \E p \in Ended("authenticate", "reply") : calls[p].status = 200 /\ resp.next
  /\ AuthenticateResult(Bearer(LegacyToken)).next
  /\ \E t \in issued : t.jti # NoJti /\ AuthenticateResult(Bearer(t)).next
  /\ \E t \in issued :
       Verify(t, AccessSecret) = "ok" /\ ~AuthenticateResult(Bearer(t)).next

\* no refresh token of user u would be accepted
RefreshDead(u) ==
  \A r \in issued : r.id = u => RefreshResult(r).kind = "Unauthorized"

\* C13: from the moment a logout has returned successfully until the next
\* request (so before any login or register of the user), every refresh
\* token handed to its user is rejected by refreshToken with Unauthorized.
C13_LogoutEndsRefresh ==
  \A p \in Ended("logout", "ok") :
    \A t \in issued :
      (RefreshKind(t) /\ t.id = calls[p].user.id) =>
         RefreshResult(t).kind = "Unauthorized"

\* C14: a refresh token is never admitted by authenticate nor accepted by
\* logout, and an access token is never accepted by refreshToken.
C14_KindsApart ==
  /\ \A t \in issued :
       /\ RefreshKind(t) =>
            /\ ~AuthenticateResult(Bearer(t)).next
            /\ LogoutResult(t).kind # "ok"
       /\ AccessKind(t) => RefreshResult(t).kind # "ok"
  /\ \A p \in DOMAIN calls :
       calls[p].pc = "done" =>
          /\ (calls[p].op = "authenticate" /\ calls[p].status = 200)
                => ~RefreshKind(calls[p].arg.token)
          /\ (calls[p].op = "logout" /\ calls[p].kind = "ok") => ~RefreshKind(calls[p].arg)
          /\ (calls[p].op = "refresh" /\ calls[p].kind = "ok") => ~AccessKind(calls[p].arg)

C14_Witness ==
  /\ \E p \in Ended("logout", "reply") :
       /\ RefreshKind(calls[p].arg)
       /\ Unexpired(calls[p].arg)
       /\ RefreshResult(calls[p].arg).kind = "ok"
       /\ calls[p].status = 401
       /\ calls[p].message = "Invalid token"
       /\ LogoutResult(calls[p].arg).kind = "JsonWebTokenError"
  /\ \E a \in issued :
       /\ AccessKind(a)
       /\ AuthenticateResult(Bearer(a)).next
       /\ RefreshResult(a).kind = "Unauthorized"

\* C18: the entries login writes carry the lifetimes of the tokens, so
\* neither runs out before the token it backs; from the moment login has
\* returned until the next request, its access token is admitted by
\* authenticate whenever the session cache answers, the token is unexpired
\* and it was not logged out.
C18_TtlCoversToken ==
  \A p \in Ended("login", "ok") :
    LET t == calls[p].out.token
        r == calls[p].out.refreshToken
    IN /\ TokenKey(t.jti) \in DOMAIN cache => cache[TokenKey(t.jti)].exp >= t.exp
       /\ (RefreshKey(r.id) \in DOMAIN cache /\ cache[RefreshKey(r.id)].data = Json(r))
             => cache[RefreshKey(r.id)].exp >= r.exp
       /\ ("cache" \notin down /\ Unexpired(t) /\ t \notin loggedOut) => Admits(t)

\* C19: authenticate answers a correctly signed but expired token with 401
\* 'Token expired' and a wrongly signed or malformed one with 401 'Invalid
\* token', in both cases without a call to the session cache.
C19_VerifyFailures ==
  /\ \A t \in Presentable :
       LET r == AuthenticateResult(Bearer(t)) IN
         /\ (t.sig = AccessSecret /\ ~Unexpired(t)) =>
              (r.status = 401 /\ r.message = "Token expired" /\ ~r.next /\ r.lookups = 0)
         /\ t.sig # AccessSecret =>
              (r.status = 401 /\ r.message = "Invalid token" /\ ~r.next /\ r.lookups = 0)
  /\ \A p \in DOMAIN calls :
       (calls[p].op = "authenticate" /\ calls[p].arg.scheme = "Bearer") =>
          /\ calls[p].arg.token.sig # AccessSecret =>
               (calls[p].pc = "done" /\ calls[p].status = 401
                  /\ calls[p].message = "Invalid token")
          /\ (calls[p].pc = "done" /\ calls[p].message \in {"Token expired", "Invalid token"})
               => calls[p].status = 401

C19_Witness ==
  /\ \E p \in Ended("authenticate", "reply") :
       /\ calls[p].message = "Token expired"
       /\ calls[p].status = 401
       /\ AccessKind(calls[p].arg.token)
       /\ AuthenticateResult(Bearer(calls[p].arg.token)).message = "Token expired"
  /\ \E r \in issued :
       /\ RefreshKind(r)
       /\ Unexpired(r)
       /\ AuthenticateResult(Bearer(r)).message = "Invalid token"
  /\ \E a \in issued : AuthenticateResult(Bearer(a)).lookups = 1

\* every token:<jti> entry is kept as it is
TokenEntriesKept ==
  \A k \in DOMAIN cache : k[1] = "token" => (k \in DOMAIN cache' /\ cache'[k] = cache[k])

\* C28: the steps of login, register and refresh keep every existing
\* token:<jti> entry as it is, and the steps of logout(T) remove nothing but
\* token:<jti of T> and refreshToken:<userId> and change no entry; so every
\* access token that was admitted before such a step, other than T, is
\* admitted after it.
C28_SessionFrame ==
  [][\/ UNCHANGED cache
     \/ now' # now
     \/ \A p \in DOMAIN calls :
          Stepped(p) =>
            \/ /\ calls[p].op \in {"login", "register", "refresh"}
               /\ TokenEntriesKept
               /\ \A a \in issued : Admits(a) => Admits(a)'
            \/ /\ calls[p].op = "logout"
               /\ DOMAIN cache' \subseteq DOMAIN cache
               /\ (DOMAIN cache \ DOMAIN cache')
                     \subseteq {TokenKey(calls[p].arg.jti), RefreshKey(calls[p].arg.id)}
               /\ \A k \in DOMAIN cache' : cache'[k] = cache[k]
               /\ \A a \in issued : (Admits(a) /\ a # calls[p].arg) => Admits(a)']_vars

\* a user held two admitted access tokens; one was logged out and the
\* other is still admitted
C28_Witness ==
  /\ Ended("logout", "ok") # {}
  /\ \E t \in loggedOut : \E a \in issued \ loggedOut :
       /\ a.id = t.id
       /\ AccessKind(a)
       /\ AccessKind(t)
       /\ Unexpired(t)
       /\ ~Admits(t)
       /\ Admits(a)
       /\ TokenKey(t.jti) \notin DOMAIN cache
       /\ RefreshKey(t.id) \notin DOMAIN cache

\* C8: register with an email that is present fails with Conflict and
\* leaves the credential store and the session cache as they were; no
\* email ever has two rows.
C8_RegisterConflict ==
  /\ [](\A e \in Emails, w \in Passwords :
          findByEmail(users, e) # {} =>
            LET r == RegisterResult(e, w) IN
              /\ r.kind = "Conflict"
              /\ r.status = 409
              /\ r.users = users
              /\ r.cache = cache)
  /\ [](\A e \in Emails : Cardinality(findByEmail(users, e)) <= 1)
  /\ [][\A p \in DOMAIN calls :
          (/\ At(p, "register", "find")
           /\ Stepped(p)
           /\ findByEmail(users, calls[p].arg.email) # {}) =>
             /\ calls'[p].kind = "Conflict"
             /\ calls'[p].status = 409
             /\ users' = users
             /\ cache' = cache]_vars

C8_Witness ==
  \E p \in Ended("register", "Conflict") :
    /\ calls[p].status = 409
    /\ calls[p].out = NoPair
    /\ Cardinality(findByEmail(users, calls[p].arg.email)) = 1

\* the tokens signed so far: those handed out and those of calls under way
Signed ==
  issued \cup UNION {{calls[p].out.token, calls[p].out.refreshToken} :
                       p \in {q \in DOMAIN calls : calls[q].out # NoPair}}

\* C15: every token signed carries a jti, and no two carry the same one; so
\* the pair of a login shares no jti with any pair handed out before it.
C15_FreshJti ==
  /\ \A t \in Signed : t.jti # NoJti /\ t.jti < nextJti
  /\ \A t1 \in Signed, t2 \in Signed : t1 # t2 => t1.jti # t2.jti
  /\ \A p \in Ended("login", "ok") :
       \A t \in issued \ {calls[p].out.token, calls[p].out.refreshToken} :
          t.jti \notin {calls[p].out.token.jti, calls[p].out.refreshToken.jti}

\* the register calls for email e that have returned
Returned(e) ==
  {p \in DOMAIN calls :
     calls[p].op = "register" /\ calls[p].pc = "done" /\ calls[p].arg.email = e}

\* the register call found its email free
FoundFree(p) ==
  /\ calls[p].op = "register"
  /\ \/ calls[p].pc \in {"create", "setRefresh"}
     \/ calls[p].pc = "done" /\ calls[p].kind \in {"ok", "P2002"}

\* C23: however register calls for one email overlap, the email has at
\* most one row; of the calls that found the email free exactly one
\* succeeds once all have returned, and every other call is answered 409,
\* never 500.
C23_RegisterRace ==
  /\ \A e \in Emails : Cardinality(findByEmail(users, e)) <= 1
  /\ \A e \in Emails :
       /\ Cardinality({p \in Returned(e) : calls[p].kind = "ok"}) <= 1
       /\ \A p \in Returned(e) : calls[p].kind # "ok" => calls[p].status = 409
       /\ ((\E p \in Returned(e) : FoundFree(p))
            /\ \A p \in DOMAIN calls :
                 (calls[p].op = "register" /\ calls[p].arg.email = e) => calls[p].pc = "done")
           => Cardinality({p \in Returned(e) : calls[p].kind = "ok"}) = 1

\* two calls both found the email free; one created the row, the other was
\* turned away by the unique constraint with 409
C23_Witness ==
  \E p \in DOMAIN calls, q \in DOMAIN calls :
    /\ calls[p].op = "register"
    /\ calls[q].op = "register"
    /\ calls[p].arg.email = calls[q].arg.email
    /\ calls[p].kind = "ok"
    /\ calls[p].status = 201
    /\ calls[q].kind = "P2002"
    /\ calls[q].status = 409
    /\ calls[q].message = "A record with this email already exists"
    /\ Cardinality(findByEmail(users, calls[p].arg.email)) = 1

\* calls of user u whose cache.set Redis has executed
Writers(u) == {p \in DOMAIN calls : calls[p].writeAt > 0 /\ calls[p].arg.id = u}

LastWriter(u) ==
  CHOOSE p \in Writers(u) : \A q \in Writers(u) : calls[q].writeAt <= calls[p].writeAt

\* C11: every refreshToken call that read its own token under
\* refreshToken:<userId> succeeds, however the calls overlap; the entry then
\* holds the refresh token of the call whose write came last, and the
\* refresh token returned by every other call is rejected on its next
\* refresh.
C11_RefreshRace ==
  /\ \A p \in DOMAIN calls :
       (calls[p].pc = "done" /\ calls[p].readAt > 0 /\ calls[p].stored = calls[p].arg)
          => (calls[p].kind = "ok" /\ calls[p].writeAt > calls[p].readAt)
  /\ \A u \in 1..MaxUsers :
       Writers(u) # {} =>
         /\ LiveAt(cache, RefreshKey(u)) =>
              CacheGet(cache, RefreshKey(u)) = calls[LastWriter(u)].out.refreshToken
         /\ \A p \in Writers(u) \ {LastWriter(u)} :
              RefreshResult(calls[p].out.refreshToken).kind = "Unauthorized"

\* two calls presented the same stored token and both read before either wrote
C11_Witness ==
  \E p \in DOMAIN calls, q \in DOMAIN calls :
    /\ calls[p].arg = calls[q].arg
    /\ calls[p].kind = "ok"
    /\ calls[q].kind = "ok"
    /\ calls[p].readAt < calls[q].readAt
    /\ calls[q].readAt < calls[q].writeAt
    /\ calls[q].writeAt < calls[p].writeAt
    /\ CacheGet(cache, RefreshKey(calls[p].arg.id)) = calls[p].out.refreshToken
    /\ Verify(calls[q].out.refreshToken, RefreshSecret) = "ok"
    /\ RefreshResult(calls[q].out.refreshToken).kind = "Unauthorized"
    /\ RefreshResult(calls[p].out.refreshToken).kind = "ok"

\* C12: while a store is failing, login, register, refresh and logout hand
\* the store's error to the caller as it is: a credential-store failure
\* reaches the caller as that failure, and no call that needs the failing
\* session cache returns a success or another kind of error.
C12_ErrorsPropagate ==
  /\ "db" \in down =>
       /\ \A e \in Emails, p \in Passwords :
            /\ LoginResult(e, p).kind = "StoreError"
            /\ RegisterResult(e, p).kind = "StoreError"
       /\ \A t \in Presentable :
            /\ Verify(t, RefreshSecret) = "ok" => RefreshResult(t).kind = "StoreError"
            /\ Verify(t, AccessSecret) = "ok" => LogoutResult(t).kind = "StoreError"
  /\ ("cache" \in down /\ "db" \notin down) =>
       /\ \A e \in Emails, p \in Passwords :
            /\ (\E i \in findByEmail(users, e) : Compare(p, users[i].password) = "match")
                 => LoginResult(e, p).kind = "CacheError"
            /\ findByEmail(users, e) = {} => RegisterResult(e, p).kind = "CacheError"
       /\ \A t \in Presentable :
            /\ (Verify(t, RefreshSecret) = "ok" /\ findById(users, t.id) # {})
                 => RefreshResult(t).kind = "CacheError"
            /\ (Verify(t, AccessSecret) = "ok" /\ findById(users, t.id) # {})
                 => LogoutResult(t).kind = "CacheError"

\* C24: once a logout of a user has completed and every call in flight has
\* returned, and no login or register of that user followed (none does in
\* SpecLogoutRace), refreshToken:<userId> is absent and no refresh token of
\* the user is accepted.
C24_LogoutFinal ==
  \A t \in loggedOut :
    (\A p \in DOMAIN calls : calls[p].pc = "done") =>
       /\ ~LiveAt(cache, RefreshKey(t.id))
       /\ RefreshDead(t.id)

\* C27: once every call in flight has returned, the entry user:<id> is
\* absent or equal to the response form of the current database row.
C27_UserCacheCoherent ==
  (\A p \in DOMAIN calls : calls[p].pc = "done") =>
     \A i \in 1..MaxUsers :
       LiveAt(cache, UserKey(i)) =>
          /\ findById(users, i) # {}
          /\ Parse(cache[UserKey(i)].data) = toResponseDto(users[i])

\* C29: while the session cache is failing, authenticate answers 401 for
\* every token that carries a jti and never calls next() for it, and
\* refreshToken fails with Unauthorized for every token, without issuing;
\* so does every call whose lookup is answered while the cache is failing.
C29_OutageFailsClosed ==
  /\ []("cache" \in down =>
          \A t \in Presentable :
            /\ t.jti # NoJti =>
                 /\ AuthenticateResult(Bearer(t)).status = 401
                 /\ ~AuthenticateResult(Bearer(t)).next
            /\ RefreshResult(t).kind = "Unauthorized"
            /\ RefreshResult(t).status = 401
            /\ RefreshResult(t).jtis = 0)
  /\ [][\/ "cache" \notin down
        \/ \A p \in DOMAIN calls :
             /\ (At(p, "authenticate", "exists") /\ Stepped(p)) =>
                   /\ calls'[p].status = 401
                   /\ calls'[p].locals = NoUser
                   /\ ~resp'.next
             /\ (At(p, "refresh", "get") /\ Stepped(p)) =>
                   /\ calls'[p].kind = "Unauthorized"
                   /\ calls'[p].out = NoPair
                   /\ nextJti' = nextJti]_vars

\* during an outage a session that is still in the cache was turned away
C29_Witness ==
  /\ "cache" \in down
  /\ \E p \in Ended("authenticate", "reply") :
       /\ calls[p].status = 401
       /\ calls[p].message = "Token invalidated or expired"
       /\ Verify(calls[p].arg.token, AccessSecret) = "ok"
       /\ TokenKey(calls[p].arg.token.jti) \in DOMAIN cache
  /\ \E r \in issued :
       /\ Verify(r, RefreshSecret) = "ok"
       /\ RefreshPre(r)
       /\ RefreshResult(r).kind = "Unauthorized"

\* requests of an identifier that were passed to next()
Passed(i) == {p \in DOMAIN calls : calls[p].ident = i /\ calls[p].out = "next"}

\* C16: within one window the limiter passes at most RateMax requests of
\* an identifier to next(), however the requests overlap.
C16_AtMostMax ==
  \A i \in Idents : Cardinality(Passed(i)) <= RateMax

\* C17: outside development the response of errorHandler carries only
\* success and error: no stack, code, meta or details; an error of unknown
\* kind is answered 500 'Internal server error'; an AppError gets its
\* statusCode, Prisma P2002 gets 409 and P2025 gets 404.
C17_NoDetailOutsideDev ==
  (resp.op = "errorHandler" /\ resp.sent /\ env # "development") =>
     LET err == calls[1].err IN
       /\ DOMAIN resp.body = {"success", "error"}
       /\ resp.body.error \notin {err.code, Stack(err)}
       /\ err.class = "Error" =>
            (resp.status = 500 /\ resp.body.error = "Internal server error")
       /\ err.class = "PrismaClientValidationError" => resp.body.error # err.message
       /\ err.class = "AppError" => resp.status = err.statusCode
       /\ (err.class = "PrismaClientKnownRequestError" /\ err.code = "P2002") =>
            resp.status = 409
       /\ (err.class = "PrismaClientKnownRequestError" /\ err.code = "P2025") =>
            resp.status = 404

C17_Witness ==
  /\ env = "test"
  /\ resp.op = "errorHandler"
  /\ calls[1].err.class = "Error"
  /\ calls[1].err.message = "connect ECONNREFUSED 127.0.0.1:5432"
  /\ resp.status = 500
  /\ resp.body = [success |-> FALSE, error |-> "Internal server error"]

\* the role authorize('Admin') lets through
Administrator(user) == AuthorizeResult({"Admin"}, user).next

\* C20: authorizeOwner calls next() exactly when the authenticated user
\* owns the resource or is an administrator, the role authorize('Admin')
\* accepts.
C20_OwnerOrAdmin ==
  resp.op = "authorizeOwner" =>
     (resp.next <=>
        /\ calls[1].user # NoUser
        /\ (calls[1].user.id = calls[1].id \/ Administrator(calls[1].user)))

\* C21: when a store operation of the limiter fails (client lookup, get,
\* ttl, setEx or incr), the request is passed to next() exactly once and no
\* 429 is written for it; no request is ever answered twice.
C21_FailOpen ==
  \A p \in DOMAIN calls :
    /\ calls[p].nexts + calls[p].sent <= 1
    /\ calls[p].pc = "done" => calls[p].nexts + calls[p].sent = 1
    /\ calls[p].err # "" =>
         /\ calls[p].pc \in {"catch", "done"}
         /\ calls[p].sent = 0
         /\ calls[p].pc = "done" => (calls[p].nexts = 1 /\ calls[p].out = "next")

\* a request over the ceiling whose ttl failed was let through
C21_Witness ==
  \E p \in DOMAIN calls :
    /\ calls[p].err = "ttl"
    /\ calls[p].count >= RateMax
    /\ calls[p].pc = "done"
    /\ calls[p].nexts = 1
    /\ calls[p].sent = 0
    /\ resp.op = "rateLimit"
    /\ resp.next

\* C22: the server listens only after connectDatabase and connectRedis
\* have both completed; getRedisClient is never called before connectRedis
\* has completed; and when a connection has failed the server never
\* listens, and the process ends after cleanup with code 1.
C22_StartupOrder ==
  LET boot == calls[1] IN
    /\ boot.listening => (boot.dbChecked /\ boot.connected)
    /\ ~boot.early
    /\ boot.failed =>
         /\ ~boot.listening
         /\ boot.pc = "dead" => (boot.cleaned /\ boot.exit = 1)

\* C25: the counter key of every identifier carries a TTL, and it runs out
\* at most one window from now, however requests and key expiry interleave.
C25_CounterTtl ==
  \A i \in Idents :
    RateKey(i) \in DOMAIN cache =>
       /\ cache[RateKey(i)].exp # -1
       /\ cache[RateKey(i)].exp <= now + RateWindow

\* C26: no connectRedis() call is answered with the failure of an earlier
\* attempt; callers that wait at the same time wait for the same attempt,
\* and every attempt creates exactly one client.
C26_ConnectRecovers ==
  /\ \A p \in DOMAIN calls \ {1} : ~calls[p].stale
  /\ \A p \in DOMAIN calls \ {1}, q \in DOMAIN calls \ {1} :
       (calls[p].pc = "await" /\ calls[q].pc = "await") => calls[p].on = calls[q].on
  /\ calls[1].clients = calls[1].attempts
====
